---- MODULE Spec2Model ----
(***************************************************************************)
(* Durable agent execution runtime: one session driven step by step by    *)
(* queue callbacks (execute-step route and AgentRuntimeService), human     *)
(* intervention handlers, the state store, the event stream and the two    *)
(* queue implementations.                                                  *)
(***************************************************************************)
EXTENDS Integers, Sequences, FiniteSets, TLC

\* ---------------------------------------------------------------- bounds
MaxProcs == 2          \* handler executions that may overlap
MaxInterventions == 1  \* human-intervention requests per behaviour
MaxStepCount == 3      \* deliveries stop once stepCount reaches this
MaxFaults == 1         \* injected infrastructure faults per behaviour
MaxRedeliveries == 1   \* queue re-deliveries per behaviour
MaxDelayStepIndex == 20 \* largest stepIndex handed to calculateDelay
MaxLastEventId == 2     \* largest lastEventId a subscriber connects with
MaxTimestamp == 30      \* largest timestamp and lastEventId handed to the history test
MaxSavedSteps == 201    \* largest stepIndex handed to saveStepResult on its own
MaxChunks == 3          \* longest chunk sequence the model adapter produces
MaxFrames == 4          \* frames enqueued on one connection
MaxStackDepth == 60     \* nested calls the client's call stack holds before it overflows
MaxTasks == 3           \* schedule calls on the timer queue per behaviour
MaxClock == 1           \* milliseconds the clock advances per behaviour

\* ------------------------------------------------------ program constants
Retries == 3           \* qstash `retries` default
DefaultMaxSteps == 100 \* agentConfig.maxSteps || 100
ImmediateDelay == 100  \* scheduleImmediateStep delay
FirstStepDelay == 500  \* create_session first step delay
LLMCost == 1           \* cost units one model call accrues
HistoryCount == 50     \* getStreamHistory(sessionId, 50) of the stream route

\* --------------------------------------------------------------- options
\* An optional value is the empty set (undefined) or a singleton.
Unset == {}
Some(x) == {x}
IsSet(o) == o # {}
Val(o) == CHOOSE x \in o : TRUE

\* ------------------------------------------------------------ tool calls
\* t1 carries well-formed JSON arguments, t2 malformed ones.
ToolT1 == [id |-> "t1", argsOk |-> TRUE]
ToolT2 == [id |-> "t2", argsOk |-> FALSE]
ToolCalls == {ToolT1, ToolT2}

\* What the model adapter may stream back: a set of tool calls (at most one).
LLMOutputs == {{}, {ToolT1}, {ToolT2}}

Statuses == {"idle", "running", "waiting_for_human_input", "done", "error", "interrupted"}

\* ----------------------------------------------------------- stream events
Ev(type, stepIndex, phase, detail) ==
  [type |-> type, stepIndex |-> stepIndex, phase |-> phase, detail |-> detail]

\* --------------------------------------------------------------- contexts
Ctx(phase, toolCalls, approved) ==
  [phase |-> phase, toolCalls |-> toolCalls, approved |-> approved]

\* ------------------------------------------------------------ instructions
Instr(type, toolCalls, reason, reasonDetail) ==
  [type |-> type, toolCalls |-> toolCalls, reason |-> reason, reasonDetail |-> reasonDetail]

\* DurableLobeChatAgent.runner: user_input -> call_llm, llm_result -> finish,
\* anything else -> finish (error_recovery).
runner(context) ==
  CASE context.phase = "user_input" -> Instr("call_llm", {}, "", "")
    [] context.phase = "llm_result" ->
         Instr("finish", {}, "completed", "Simple agent completed successfully")
    [] OTHER -> Instr("finish", {}, "error_recovery", "Unknown phase")

\* The default runner of the agent imported by the execute-step route
\* (@/server/agents/DurableLobeChatAgent): approval policy on or off.
defaultRunner(context, policyDemands) ==
  CASE context.phase = "user_input" -> Instr("call_llm", {}, "", "")
    [] context.phase = "llm_result" /\ context.toolCalls # {} ->
         IF policyDemands /\ ~context.approved
           THEN Instr("request_human_approve", context.toolCalls, "", "")
           ELSE Instr("call_tool", context.toolCalls, "", "")
    [] context.phase = "tool_result" -> Instr("call_llm", {}, "", "")
    [] OTHER -> Instr("finish", {}, "completed", "")

Agents == {"durable", "policy_approve", "policy_auto"}

agentRunner(agent, context) ==
  IF agent = "durable" THEN runner(context)
  ELSE defaultRunner(context, agent = "policy_approve")

\* ------------------------------------------------------------- executors
\* An executor result: fault (raised out of the executor), the events it
\* returns, the events it published on the stream, newState, nextContext.
ExecResult(fault, events, published, newState, nextContext) ==
  [fault |-> fault, events |-> events, published |-> published,
   newState |-> newState, nextContext |-> nextContext]

\* createStreamingLLMExecutor; out = tool calls streamed, fails = producer fault
createStreamingLLMExecutor(stepIndex, state, out, fails) ==
  IF fails
    THEN ExecResult(TRUE, <<>>,
           <<Ev("stream_start", stepIndex, "", ""),
             Ev("error", stepIndex, "llm_execution", "")>>,
           state, Unset)
    ELSE ExecResult(FALSE,
           (IF out = {} THEN <<"llm_stream">> ELSE <<"llm_stream", "llm_stream">>)
             \o <<"llm_result">>,
           <<Ev("stream_start", stepIndex, "", ""),
             Ev("stream_chunk", stepIndex, "text", "")>>
             \o (IF out = {} THEN <<>> ELSE <<Ev("stream_chunk", stepIndex, "tool_calls", "")>>)
             \o <<Ev("stream_end", stepIndex, "", "")>>,
           [state EXCEPT !.messages =
              Append(@, IF out = {} THEN "assistant" ELSE "assistant+tool_calls")],
           Some(Ctx("llm_result", out, FALSE)))

\* A tool executor whose catch block still pushes a tool message.
createStreamingToolExecutorPushesOnError(stepIndex, state, toolCall) ==
  IF toolCall.argsOk
    THEN ExecResult(FALSE, <<"tool_result">>,
           <<Ev("step_start", stepIndex, "tool_execution", ""),
             Ev("step_complete", stepIndex, "tool_execution", "")>>,
           [state EXCEPT !.messages = Append(@, "tool:" \o toolCall.id)],
           Some(Ctx("tool_result", {}, FALSE)))
    ELSE ExecResult(FALSE, <<"error">>,
           <<Ev("step_start", stepIndex, "tool_execution", ""),
             Ev("error", stepIndex, "tool_execution", "")>>,
           [state EXCEPT !.messages = Append(@, "tool:" \o toolCall.id)], Unset)

\* createStreamingToolExecutor: JSON.parse of the arguments may throw; the
\* catch publishes an error event and returns the state unchanged.
createStreamingToolExecutor(stepIndex, state, toolCall) ==
  IF toolCall.argsOk
    THEN ExecResult(FALSE, <<"tool_result">>,
           <<Ev("step_start", stepIndex, "tool_execution", ""),
             Ev("step_complete", stepIndex, "tool_execution", "")>>,
           [state EXCEPT !.messages = Append(@, "tool:" \o toolCall.id)],
           Some(Ctx("tool_result", {}, FALSE)))
    ELSE ExecResult(FALSE, <<"error">>,
           <<Ev("step_start", stepIndex, "tool_execution", ""),
             Ev("error", stepIndex, "tool_execution", "")>>,
           state, Unset)

\* createStreamingHumanApprovalExecutor
createStreamingHumanApprovalExecutor(stepIndex, state, pendingToolsCalling) ==
  ExecResult(FALSE, <<"human_approve_required", "tool_pending">>,
    <<Ev("step_start", stepIndex, "human_approval", ""),
      Ev("stream_chunk", stepIndex, "tool_calls", "")>>,
    [state EXCEPT !.status = "waiting_for_human_input",
                  !.pendingToolsCalling = Some(pendingToolsCalling)],
    Unset)

\* createStreamingFinishExecutor
createStreamingFinishExecutor(stepIndex, state, reason, reasonDetail) ==
  ExecResult(FALSE, <<"done">>,
    <<Ev("step_complete", stepIndex, "execution_complete", reasonDetail)>>,
    [state EXCEPT !.status = "done"],
    Unset)

\* executors lookup table keyed by instruction type
executors(instruction, stepIndex, state, out, fails) ==
  CASE instruction.type = "call_llm" ->
         createStreamingLLMExecutor(stepIndex, state, out, fails)
    [] instruction.type = "call_tool" ->
         createStreamingToolExecutor(stepIndex, state, Val(instruction.toolCalls))
    [] instruction.type = "request_human_approve" ->
         createStreamingHumanApprovalExecutor(stepIndex, state, instruction.toolCalls)
    [] OTHER ->
         createStreamingFinishExecutor(stepIndex, state, instruction.reason,
                                       instruction.reasonDetail)

\* --------------------------------------------------------- agent runtime
\* AgentRuntime.createInitialState: status idle, no steps, zero cost.
createInitialState(messages, maxSteps, costLimit) ==
  [status |-> "idle", stepCount |-> 0, messages |-> messages, cost |-> 0,
   maxSteps |-> maxSteps, costLimit |-> costLimit,
   pendingToolsCalling |-> Unset, pendingHumanPrompt |-> Unset,
   pendingHumanSelect |-> Unset, interruption |-> Unset]

\* AgentRuntime.step: count the step, idle -> running, ask the runner for an
\* instruction and run the matching executor; a call_llm accrues LLMCost.
\* An executor that raises is a fault propagated to the caller. What the
\* runtime does with an absent context is not fixed by anything in the
\* repository: it either raises (the runner reads the phase of undefined) or
\* hands the runner a default context of phase init (onAbsent).
RuntimeStep(agent, stepIndex, state, context, out, fails, onAbsent) ==
  LET s1 == [state EXCEPT !.stepCount = @ + 1,
                          !.status = IF @ = "idle" THEN "running" ELSE @]
      c == IF IsSet(context) THEN Val(context) ELSE Ctx("init", {}, FALSE)
      instruction == agentRunner(agent, c)
      r == executors(instruction, stepIndex, s1, out, fails)
  IN IF ~IsSet(context) /\ onAbsent = "raise"
       THEN ExecResult(TRUE, <<>>, <<>>, state, Unset)
       ELSE IF instruction.type = "call_llm" /\ ~r.fault
         THEN [r EXCEPT !.newState.cost = @ + LLMCost]
         ELSE r

\* AgentRuntime.approveToolCall: clear pendingToolsCalling, status running,
\* next context llm_result carrying the approved tool call.
approveToolCall(state, approvedToolCall) ==
  ExecResult(FALSE, <<"human_approved">>, <<>>,
    [state EXCEPT !.status = "running", !.pendingToolsCalling = Unset],
    Some(Ctx("llm_result", {approvedToolCall}, TRUE)))

\* shouldContinueExecution (execute-step route and AgentRuntimeService)
shouldContinueExecution(state, context) ==
  IF state.status = "done" THEN FALSE
  ELSE IF state.status = "waiting_for_human_input" THEN FALSE
  ELSE IF state.status = "error" THEN FALSE
  ELSE IF state.status = "interrupted" THEN FALSE
  ELSE IF state.maxSteps # 0 /\ state.stepCount >= state.maxSteps THEN FALSE
  ELSE IF IsSet(state.costLimit) /\ state.cost >= Val(state.costLimit).maxTotalCost
    THEN Val(state.costLimit).onExceeded # "stop"
  ELSE IF ~IsSet(context) THEN FALSE
  ELSE TRUE

Min(a, b) == IF a < b THEN a ELSE b

\* A delay whose error backoff is not capped.
calculateDelayUncapped(hasErrors, hasToolCalls, priority, stepIndex) ==
  LET base == CASE priority = "high" -> 200
                [] priority = "low" -> 5000
                [] OTHER -> 1000
      withTools == IF hasToolCalls THEN base + 1000 ELSE base
  IN IF hasErrors THEN withTools + stepIndex * 1000 ELSE withTools

\* QueueService.calculateDelay
calculateDelay(hasErrors, hasToolCalls, priority, stepIndex) ==
  LET base == CASE priority = "high" -> 200
                [] priority = "low" -> 5000
                [] OTHER -> 1000
      withTools == IF hasToolCalls THEN base + 1000 ELSE base
  IN IF hasErrors THEN withTools + Min(stepIndex * 1000, 10000) ELSE withTools

\* AgentRuntimeService.calculateStepDelay
calculateStepDelay(events) ==
  IF \E i \in DOMAIN events : events[i] = "tool_result" THEN 1000 + 1000
  ELSE IF \E i \in DOMAIN events : events[i] = "error" THEN Min(1000 * 2, 10000)
  ELSE 1000

\* ------------------------------------------------------------------ queue
\* The human-intervention payload of a callback body.
Payload(approvedToolCall, rejectionReason, humanInput) ==
  [approvedToolCall |-> approvedToolCall, rejectionReason |-> rejectionReason,
   humanInput |-> humanInput]
NoPayload == Payload(Unset, Unset, Unset)

\* A pending task: the callback body it will deliver, where to, after which
\* delay, and how many re-deliveries remain.
Task(id, endpoint, stepIndex, context, payload, priority, delay, retriesLeft) ==
  [id |-> id, endpoint |-> endpoint, stepIndex |-> stepIndex, context |-> context,
   payload |-> payload, priority |-> priority, delay |-> delay,
   retriesLeft |-> retriesLeft]

Impls == {"simple", "qstash"}

\* SimpleQueueServiceImpl.scheduleNextStep / QStashQueueServiceImpl.scheduleNextStep
\* priority is an option: the simple queue's body carries none.
scheduleNextStep(impl, id, stepIndex, context, priority, delay) ==
  IF impl = "simple"
    THEN Task(id, "execute-step", stepIndex, context, NoPayload, Unset, delay, 0)
    ELSE Task(id, "execute-step", stepIndex, context, NoPayload, Some(priority), delay, Retries)

\* scheduleImmediateStep: the simple queue forwards to scheduleNextStep with
\* delay 100, which builds the body from context, sessionId and stepIndex only.
scheduleImmediateStep(impl, id, stepIndex, context, payload) ==
  IF impl = "simple"
    THEN scheduleNextStep(impl, id, stepIndex, context, "normal", ImmediateDelay)
    ELSE Task(id, "execute-step", stepIndex, context, payload, Some("high"),
              ImmediateDelay, Retries)

\* QueueService.scheduleMessage as called by AgentRuntimeService (endpoint /run)
scheduleMessage(impl, id, stepIndex, context, payload, priority, delay) ==
  Task(id, "run", stepIndex, context, payload, Some(priority), delay,
       IF impl = "simple" THEN 0 ELSE Retries)

\* A non-2xx answer makes the queue deliver the task again while retries remain.
Redeliver(t, done) ==
  IF t.retriesLeft > 0 /\ done < MaxRedeliveries
    THEN {[t EXCEPT !.retriesLeft = @ - 1]} ELSE {}

\* ------------------------------------------------------------ state store
\* A step result kept in the bounded history (newest first).
HistoryCap == 200
StepRecord(stepIndex, state, events) ==
  [stepIndex |-> stepIndex, status |-> state.status, events |-> events]

SubSeqTo(s, n) == IF Len(s) <= n THEN s ELSE SubSeq(s, 1, n)

\* AgentStateManager.saveStepResult: lpush + ltrim 0..199
pushStep(hist, rec) == SubSeqTo(<<rec>> \o hist, HistoryCap)

\* ------------------------------------------------------------------ state
VARIABLES
  agent,          \* which agent the step engine instantiates
  impl,           \* queue implementation chosen by createQueueServiceModule
  store,          \* state:{id}: Unset or Some(session state)
  history,        \* steps:{id}: step results, newest first
  stream,         \* the session's event log, oldest first
  queue,          \* tasks scheduled and not yet delivered
  nextId,         \* number of tasks scheduled so far (next task id)
  procs,          \* handler executions in flight
  faults,         \* infrastructure faults injected so far
  interventions,  \* human-intervention requests received so far
  redeliveries,   \* queue re-deliveries so far
  responses       \* the last response of each kind of handler

vars == <<agent, impl, store, history, stream, queue, nextId, procs, faults,
          interventions, redeliveries, responses>>

ProcIds == 1..MaxProcs

\* A handler execution: kind idle | step (execute-step route) | run
\* (AgentRuntimeService.executeStep) | hi (human-intervention route).
Proc(kind, pc, task, st, ctx, res, req) ==
  [kind |-> kind, pc |-> pc, task |-> task, st |-> st, ctx |-> ctx, res |-> res,
   req |-> req]
IdleProc == Proc("idle", "", Unset, Unset, Unset, Unset, Unset)

IsFree(p) == procs[p].kind = "idle" /\ \A q \in ProcIds : q < p => procs[q].kind # "idle"

StepsInFlight == {p \in ProcIds : procs[p].kind \in {"step", "run"}}

HasPayload(pl) ==
  IsSet(pl.humanInput) \/ IsSet(pl.approvedToolCall) \/ IsSet(pl.rejectionReason)

\* The response record of a handler.
Resp(handler, code, detail) == [handler |-> handler, code |-> code, detail |-> detail]

Init ==
  /\ agent \in Agents
  /\ impl \in Impls
  /\ store = Unset
  /\ history = <<>>
  /\ stream = <<>>
  /\ queue = {}
  /\ nextId = 0
  /\ procs = [p \in ProcIds |-> IdleProc]
  /\ faults = 0
  /\ interventions = 0
  /\ redeliveries = 0
  /\ responses = Resp("none", 0, "")

\* ------------------------------------------------------ session creation
\* A create_session that schedules the first step whatever autoStart says.
CreateSessionAlwaysStarts(maxSteps, costLimit, autoStart) ==
  /\ store = Unset
  /\ nextId = 0
  /\ responses.handler = "none"
  /\ store' = Some(createInitialState(<<"user">>,
                     IF maxSteps # 0 THEN maxSteps ELSE DefaultMaxSteps, costLimit))
  /\ queue' = queue \cup {scheduleNextStep(impl, nextId, 0,
                             Some(Ctx("user_input", {}, FALSE)), "high", FirstStepDelay)}
  /\ nextId' = nextId + 1
  /\ responses' = Resp("session", 200,
                       IF autoStart THEN "autoStart:scheduled" ELSE "created")
  /\ UNCHANGED <<agent, impl, history, stream, procs, faults, interventions, redeliveries>>

\* POST /session: save the initial state and, with autoStart, schedule step 0
\* (phase user_input, priority high, delay 500). A failure of the schedule
\* call is caught: the answer is still 200, with firstStep.scheduled false.
CreateSession(maxSteps, costLimit, autoStart) ==
  /\ store = Unset
  /\ nextId = 0
  /\ responses.handler = "none"
  /\ store' = Some(createInitialState(<<"user">>,
                     IF maxSteps # 0 THEN maxSteps ELSE DefaultMaxSteps, costLimit))
  /\ IF autoStart
       THEN \/ /\ queue' = queue \cup {scheduleNextStep(impl, nextId, 0,
                             Some(Ctx("user_input", {}, FALSE)), "high", FirstStepDelay)}
               /\ nextId' = nextId + 1
               /\ responses' = Resp("session", 200, "autoStart:scheduled")
               /\ UNCHANGED faults
            \/ /\ faults < MaxFaults
               /\ faults' = faults + 1
               /\ responses' = Resp("session", 200, "autoStart:failed")
               /\ UNCHANGED <<queue, nextId>>
       ELSE /\ responses' = Resp("session", 200, "created")
            /\ UNCHANGED <<queue, nextId, faults>>
  /\ UNCHANGED <<agent, impl, history, stream, procs, interventions, redeliveries>>

\* ------------------------------------------- DurableLobeChatAgent.runner
\* The contexts a runner may be handed: every phase, with or without tool calls.
Phases == {"user_input", "llm_result", "tool_result", "human_input", "error_recovery", "init"}
Contexts == {Ctx(phase, toolCalls, approved) :
               phase \in Phases, toolCalls \in SUBSET ToolCalls, approved \in BOOLEAN}

\* A call of the runner of DurableLobeChatAgent; the instruction is kept with
\* the context it answers.
RunnerCall(p, context) ==
  /\ procs[p].kind \in {"idle", "runner"}
  /\ procs' = [procs EXCEPT ![p] =
       Proc("runner", "", Unset, Unset, Some(context), Some(runner(context)), Unset)]
  /\ UNCHANGED <<agent, impl, store, history, stream, queue, nextId, faults,
                 interventions, redeliveries, responses>>

\* ------------------------------------- createStreamingLLMExecutor, chunk loop
\* A chunk read from the model adapter: text, tool_calls or any other type.
Chunk(type, text, tool_calls) == [type |-> type, text |-> text, tool_calls |-> tool_calls]

ChunkSet ==
  {Chunk("text", text, <<>>) : text \in {"", "a", "b"}}
    \cup {Chunk("tool_calls", "", tc) : tc \in {<<>>, <<"t1">>, <<"t1", "t2">>}}
    \cup {Chunk("reasoning", "r", <<>>)}

RECURSIVE SeqsUpTo(_, _)
SeqsUpTo(S, n) ==
  IF n = 0 THEN {<<>>}
  ELSE LET shorter == SeqsUpTo(S, n - 1)
       IN shorter \cup {Append(q, x) : q \in shorter, x \in S}

\* A published stream_chunk.
PublishedChunk(chunkType, content, fullContent, toolCalls) ==
  [chunkType |-> chunkType, content |-> content, fullContent |-> fullContent,
   toolCalls |-> toolCalls]

\* The loop over reader.read(): a text chunk with a non-empty text extends the
\* content and is published with the content so far; a tool_calls chunk
\* replaces the tool-call list and is published; every chunk is an llm_stream
\* event. acc holds content, toolCalls, the published chunks and the events.
RECURSIVE readChunks(_, _)
readChunks(chunks, acc) ==
  IF chunks = <<>> THEN acc
  ELSE LET chunk == Head(chunks)
           next ==
             IF chunk.type = "text" /\ chunk.text # ""
               THEN [acc EXCEPT !.content = @ \o chunk.text,
                                !.published = Append(@,
                                   PublishedChunk("text", chunk.text,
                                                  acc.content \o chunk.text, <<>>))]
             ELSE IF chunk.type = "tool_calls"
               THEN [acc EXCEPT !.toolCalls = chunk.tool_calls,
                                !.published = Append(@,
                                   PublishedChunk("tool_calls", "", "", chunk.tool_calls))]
             ELSE acc
       IN readChunks(Tail(chunks), [next EXCEPT !.events = Append(@, "llm_stream")])

\* An executor that sets hasToolCalls whenever a tool_calls chunk was read.
streamLLMAnyToolChunk(messages, chunks) ==
  LET acc == readChunks(chunks, [content |-> "", toolCalls |-> <<>>,
                                 published |-> <<>>, events |-> <<>>])
  IN [published |-> acc.published,
      finalContent |-> acc.content,
      events |-> Append(acc.events, "llm_result"),
      messages |-> Append(messages, [role |-> "assistant", content |-> acc.content,
                                     tool_calls |-> acc.toolCalls]),
      nextContext |-> [phase |-> "llm_result", toolCalls |-> acc.toolCalls,
                       hasToolCalls |->
                         \E k \in DOMAIN acc.published :
                           acc.published[k].chunkType = "tool_calls"]]

\* The executor over a chunk sequence: stream_end with the final content, one
\* assistant message pushed on a copy of the messages, llm_result context.
streamLLM(messages, chunks) ==
  LET acc == readChunks(chunks, [content |-> "", toolCalls |-> <<>>,
                                 published |-> <<>>, events |-> <<>>])
  IN [published |-> acc.published,
      finalContent |-> acc.content,
      events |-> Append(acc.events, "llm_result"),
      messages |-> Append(messages, [role |-> "assistant", content |-> acc.content,
                                     tool_calls |-> acc.toolCalls]),
      nextContext |-> [phase |-> "llm_result", toolCalls |-> acc.toolCalls,
                       hasToolCalls |-> Len(acc.toolCalls) > 0]]

\* One call of the executor on the chunks and the messages it was handed.
LLMCall(p) ==
  /\ procs[p].kind = "llm"
  /\ procs[p].pc = "call"
  /\ procs' = [procs EXCEPT ![p].pc = "done",
                            ![p].res = Some(streamLLM(Val(procs[p].st),
                                                      Val(procs[p].req)))]
  /\ UNCHANGED <<agent, impl, store, history, stream, queue, nextId, faults,
                 interventions, redeliveries, responses>>

\* --------------------------------------- createStreamingToolExecutor, one call
\* The instruction's tool call, the executor context's stepIndex and the
\* state the executor was handed are kept with its result.
ToolCall(p) ==
  /\ procs[p].kind = "tool"
  /\ procs[p].pc = "call"
  /\ procs' = [procs EXCEPT ![p].pc = "done",
                            ![p].res = Some(createStreamingToolExecutor(
                                              Val(procs[p].task), Val(procs[p].st),
                                              Val(procs[p].req)))]
  /\ UNCHANGED <<agent, impl, store, history, stream, queue, nextId, faults,
                 interventions, redeliveries, responses>>

\* ------------------------------------------------------ GET /session
\* The flags of the answer of GET /session that hold, each derived from the
\* status, written one after the other.
StatusFlags(currentState) ==
  (IF currentState.status \in {"running", "waiting_for_human_input"}
     THEN "isActive " ELSE "")
  \o (IF currentState.status = "done" THEN "isCompleted " ELSE "")
  \o (IF currentState.status = "error" THEN "hasError " ELSE "")
  \o (IF currentState.status = "waiting_for_human_input" THEN "needsHumanInput " ELSE "")

\* GET /session: 404 for a missing session, else the current state with the
\* flags derived from its status.
GetStatus ==
  /\ IF IsSet(store)
       THEN responses' = Resp("session-status", 200, StatusFlags(Val(store)))
       ELSE responses' = Resp("session-status", 404, "Session not found")
  /\ responses.handler # "none"
  /\ UNCHANGED <<agent, impl, store, history, stream, queue, nextId, procs, faults,
                 interventions, redeliveries>>

\* ------------------------------------------------ execute-step route (POST)
\* Steps 1-2: the queue delivers a task; load the state (404 when missing),
\* publish step_start.
StepBegin(t, p) ==
  /\ t \in queue
  /\ t.endpoint = "execute-step"
  /\ IsFree(p)
  /\ IsSet(store) => Val(store).stepCount < MaxStepCount
  /\ IF ~IsSet(store)
       THEN /\ queue' = (queue \ {t}) \cup Redeliver(t, redeliveries)
            /\ redeliveries' = redeliveries + Cardinality(Redeliver(t, redeliveries))
            /\ responses' = Resp("execute-step", 404, "Agent session not found")
            /\ UNCHANGED <<stream, procs>>
       ELSE /\ queue' = queue \ {t}
            /\ stream' = Append(stream, Ev("step_start", t.stepIndex, "", ""))
            /\ procs' = [procs EXCEPT ![p] =
                 Proc("step", IF HasPayload(t.payload) THEN "intervene" ELSE "exec",
                      Some(t), store, t.context, Unset, Unset)]
            /\ UNCHANGED <<responses, redeliveries>>
  /\ UNCHANGED <<agent, impl, store, history, nextId, faults, interventions>>

\* Step 6: human intervention. An approved tool call on a waiting session goes
\* through runtime.approveToolCall; a rejection reason sets status done and
\* publishes step_complete; humanInput has no branch.
StepIntervene(p) ==
  /\ procs[p].kind = "step"
  /\ procs[p].pc = "intervene"
  /\ LET t == Val(procs[p].task)
         st0 == Val(procs[p].st)
         approving == IsSet(t.payload.approvedToolCall)
                        /\ st0.status = "waiting_for_human_input"
         result == approveToolCall(st0, Val(t.payload.approvedToolCall))
         st1 == IF approving THEN result.newState ELSE st0
         ctx1 == IF approving THEN result.nextContext ELSE procs[p].ctx
         ev1 == IF approving
                  THEN <<Ev("step_complete", t.stepIndex, "human_intervention_processed", "")>>
                  ELSE <<>>
     IN IF IsSet(t.payload.rejectionReason)
          THEN /\ stream' = stream \o ev1 \o
                     <<Ev("step_complete", t.stepIndex, "human_intervention_rejected",
                          Val(t.payload.rejectionReason))>>
               /\ procs' = [procs EXCEPT ![p].st = Some([st1 EXCEPT !.status = "done"]),
                                         ![p].ctx = ctx1,
                                         ![p].pc = "reject_save"]
          ELSE /\ stream' = stream \o ev1
               /\ procs' = [procs EXCEPT ![p].st = Some(st1), ![p].ctx = ctx1,
                                         ![p].pc = "exec"]
  /\ UNCHANGED <<agent, impl, store, history, queue, nextId, faults, interventions,
                 responses, redeliveries>>

\* Rejection: saveStepResult with the synthetic done event, then return.
StepRejectSave(p) ==
  /\ procs[p].kind = "step"
  /\ procs[p].pc = "reject_save"
  /\ LET t == Val(procs[p].task)
         st == Val(procs[p].st)
     IN /\ store' = Some(st)
        /\ history' = pushStep(history, StepRecord(t.stepIndex, st, <<"done">>))
        /\ responses' = Resp("execute-step", 200, "rejected")
  /\ procs' = [procs EXCEPT ![p] = IdleProc]
  /\ UNCHANGED <<agent, impl, stream, queue, nextId, faults, interventions, redeliveries>>

\* Step 7: runtime.step (execute-step route and AgentRuntimeService alike).
\* The executor publishes its events; a fault goes to the catch block.
StepExecute(p) ==
  /\ procs[p].kind \in {"step", "run"}
  /\ procs[p].pc = "exec"
  /\ \E out \in LLMOutputs, fails \in BOOLEAN, onAbsent \in {"raise", "init"} :
       /\ fails => faults < MaxFaults
       /\ LET t == Val(procs[p].task)
              isRun == procs[p].kind = "run"
              \* AgentRuntimeService always builds the DurableLobeChatAgent of
              \* the AgentRuntime module and an executor context of stepIndex 0
              r == RuntimeStep(IF isRun THEN "durable" ELSE agent,
                               IF isRun THEN 0 ELSE t.stepIndex,
                               Val(procs[p].st), procs[p].ctx, out, fails, onAbsent)
          IN /\ stream' = stream \o r.published
             /\ faults' = IF fails /\ r.fault /\ r.published # <<>> THEN faults + 1 ELSE faults
             /\ procs' = [procs EXCEPT ![p].res = Some(r),
                                       ![p].pc = IF r.fault THEN "fail" ELSE "save"]
  /\ UNCHANGED <<agent, impl, store, history, queue, nextId, interventions, responses, redeliveries>>

\* Step 8: saveStepResult; a failing state store raises into the catch block.
StepSave(p) ==
  /\ procs[p].kind \in {"step", "run"}
  /\ procs[p].pc = "save"
  /\ LET t == Val(procs[p].task)
         r == Val(procs[p].res)
     IN \/ /\ store' = Some(r.newState)
           /\ history' = pushStep(history, StepRecord(t.stepIndex, r.newState, r.events))
           /\ procs' = [procs EXCEPT ![p].pc = IF procs[p].kind = "step" THEN "complete"
                                               ELSE "schedule"]
           /\ UNCHANGED faults
        \/ /\ faults < MaxFaults
           /\ faults' = faults + 1
           /\ procs' = [procs EXCEPT ![p].pc = "fail"]
           /\ UNCHANGED <<store, history>>
  /\ UNCHANGED <<agent, impl, stream, queue, nextId, interventions, responses, redeliveries>>

\* Step 9: publish step_complete; the event store may fail.
StepComplete(p) ==
  /\ procs[p].kind = "step"
  /\ procs[p].pc = "complete"
  /\ LET t == Val(procs[p].task)
     IN \/ /\ stream' = Append(stream, Ev("step_complete", t.stepIndex, "", ""))
           /\ procs' = [procs EXCEPT ![p].pc = "schedule"]
           /\ UNCHANGED faults
        \/ /\ faults < MaxFaults
           /\ faults' = faults + 1
           /\ procs' = [procs EXCEPT ![p].pc = "fail"]
           /\ UNCHANGED stream
  /\ UNCHANGED <<agent, impl, store, history, queue, nextId, interventions, responses, redeliveries>>

\* Steps 10-12: decide the continuation, schedule the next step (a scheduling
\* failure is caught) and answer 200.
StepSchedule(p) ==
  /\ procs[p].kind = "step"
  /\ procs[p].pc = "schedule"
  /\ LET t == Val(procs[p].task)
         r == Val(procs[p].res)
         priority == IF IsSet(t.priority) THEN Val(t.priority) ELSE "normal"
         shouldContinue == shouldContinueExecution(r.newState, r.nextContext)
         delay == calculateDelay(\E i \in DOMAIN r.events : r.events[i] = "error",
                                 \E i \in DOMAIN r.events : r.events[i] = "tool_result",
                                 priority, t.stepIndex + 1)
     IN IF shouldContinue
          THEN \/ /\ queue' = queue \cup {scheduleNextStep(impl, nextId, t.stepIndex + 1,
                                            r.nextContext, priority, delay)}
                  /\ nextId' = nextId + 1
                  /\ responses' = Resp("execute-step", 200, "scheduled")
                  /\ UNCHANGED faults
               \/ /\ faults < MaxFaults
                  /\ faults' = faults + 1
                  /\ responses' = Resp("execute-step", 200, "not scheduled")
                  /\ UNCHANGED <<queue, nextId>>
          ELSE /\ responses' = Resp("execute-step", 200, "not scheduled")
               /\ UNCHANGED <<queue, nextId, faults>>
  /\ procs' = [procs EXCEPT ![p] = IdleProc]
  /\ UNCHANGED <<agent, impl, store, history, stream, interventions, redeliveries>>

\* The catch block: the request body was already consumed, so the second
\* request.json() rejects, body is {} and no error event is published; 500.
StepFail(p) ==
  /\ procs[p].kind = "step"
  /\ procs[p].pc = "fail"
  /\ queue' = queue \cup Redeliver(Val(procs[p].task), redeliveries)
  /\ redeliveries' = redeliveries + Cardinality(Redeliver(Val(procs[p].task), redeliveries))
  /\ responses' = Resp("execute-step", 500, "error")
  /\ procs' = [procs EXCEPT ![p] = IdleProc]
  /\ UNCHANGED <<agent, impl, store, history, stream, nextId, faults, interventions>>

\* ------------------------------------------- timer of the simple queue
\* The timer of SimpleQueueServiceImpl fires and its fetch rejects before the
\* endpoint is reached: the catch block logs, the finally block forgets the
\* task.
DeliveryLost(t) ==
  /\ impl = "simple"
  /\ t \in queue
  /\ faults < MaxFaults
  /\ faults' = faults + 1
  /\ queue' = queue \ {t}
  /\ UNCHANGED <<agent, impl, store, history, stream, nextId, procs, interventions,
                 redeliveries, responses>>

\* ------------------------------------- SimpleQueueServiceImpl, the timers
\* taskId = `${sessionId}_${stepIndex}_${Date.now()}` of the one session.
TaskId(stepIndex, now) == [stepIndex |-> stepIndex, now |-> now]

\* A timer created by setTimeout; uid tells timers apart, fired says that its
\* callback has started, cancelRequested that cancelScheduledTask was called
\* with its taskId while it was waiting.
Timer(uid, taskId, fired, cancelRequested) ==
  [uid |-> uid, taskId |-> taskId, fired |-> fired, cancelRequested |-> cancelRequested]

\* The queue object: the live timers, the timeouts map (taskId -> timer, as a
\* set of pairs with one pair per taskId), the clock, the timers created so
\* far and the timers that called the step endpoint.
TimerQueue(timers, timeouts, now, created, called) ==
  [timers |-> timers, timeouts |-> timeouts, now |-> now, created |-> created,
   called |-> called]

\* Map.set: the pair of the key is replaced.
MapSet(timeouts, taskId, uid) ==
  {e \in timeouts : e.taskId # taskId} \cup {[taskId |-> taskId, uid |-> uid]}

\* Map.delete
MapDelete(timeouts, taskId) == {e \in timeouts : e.taskId # taskId}

SetQueue(p, q) ==
  /\ procs' = [procs EXCEPT ![p].res = Some(q)]
  /\ UNCHANGED <<agent, impl, store, history, stream, queue, nextId, faults,
                 interventions, redeliveries, responses>>

\* scheduleNextStep: build the taskId from the clock, setTimeout, timeouts.set.
TimerSchedule(p, stepIndex) ==
  /\ procs[p].kind = "timers"
  /\ LET q == Val(procs[p].res)
         taskId == TaskId(stepIndex, q.now)
     IN /\ q.created < MaxTasks
        /\ SetQueue(p, [q EXCEPT
             !.timers = @ \cup {Timer(q.created, taskId, FALSE, FALSE)},
             !.timeouts = MapSet(@, taskId, q.created),
             !.created = @ + 1])

\* A millisecond passes.
TimerTick(p) ==
  /\ procs[p].kind = "timers"
  /\ Val(procs[p].res).now < MaxClock
  /\ SetQueue(p, [Val(procs[p].res) EXCEPT !.now = @ + 1])

\* A timer expires: its callback starts and calls the step endpoint.
TimerFire(p, timer) ==
  /\ procs[p].kind = "timers"
  /\ LET q == Val(procs[p].res)
     IN /\ timer \in q.timers
        /\ ~timer.fired
        /\ SetQueue(p, [q EXCEPT
             !.timers = (@ \ {timer}) \cup {[timer EXCEPT !.fired = TRUE]},
             !.called = @ \cup {timer.uid}])

\* The fetch of a callback settles: finally, timeouts.delete(taskId).
TimerSettle(p, timer) ==
  /\ procs[p].kind = "timers"
  /\ LET q == Val(procs[p].res)
     IN /\ timer \in q.timers
        /\ timer.fired
        /\ SetQueue(p, [q EXCEPT !.timers = @ \ {timer},
                                 !.timeouts = MapDelete(@, timer.taskId)])

\* cancelScheduledTask(taskId): clearTimeout of the timer the map holds for
\* the id, and timeouts.delete; nothing when the map has no such key.
TimerCancel(p, taskId) ==
  /\ procs[p].kind = "timers"
  /\ LET q == Val(procs[p].res)
         held == {e \in q.timeouts : e.taskId = taskId}
         cleared == {t \in q.timers : \E e \in held : e.uid = t.uid /\ ~t.fired}
     IN /\ \E t \in q.timers : t.taskId = taskId /\ ~t.cancelRequested
        /\ SetQueue(p, [q EXCEPT
             !.timers = {IF t.taskId = taskId /\ ~t.fired
                           THEN [t EXCEPT !.cancelRequested = TRUE] ELSE t :
                         t \in @ \ cleared},
             !.timeouts = IF held # {} THEN MapDelete(@, taskId) ELSE @])

\* getQueueStats().pendingCount = timeouts.size
pendingCount(q) == Cardinality(q.timeouts)

\* ----------------------------------------------- QueueService.calculateDelay
\* The parameters of a call of the static calculateDelay.
DelayParams ==
  [hasErrors : BOOLEAN, hasToolCalls : BOOLEAN, priority : {"high", "normal", "low"},
   stepIndex : 0..MaxDelayStepIndex]

\* A call of QueueService.calculateDelay; the answer is kept with its parameters.
CalculateDelay(params) ==
  /\ responses' = Resp("calculateDelay",
                       calculateDelay(params.hasErrors, params.hasToolCalls,
                                      params.priority, params.stepIndex),
                       params)
  /\ UNCHANGED <<agent, impl, store, history, stream, queue, nextId, procs, faults,
                 interventions, redeliveries>>

\* ------------------------------------------------------ stream route (GET)
\* Event i of the log has the stream id "<time>-0" and the timestamp <time>,
\* one event per millisecond; times have the same number of digits.
EventTime(i) == 100 + i

\* Number.prototype.toString / the id string, as sequences of character codes.
DigitCodes(n) ==
  IF n < 10 THEN <<48 + n>>
  ELSE IF n < 100 THEN <<48 + (n \div 10), 48 + (n % 10)>>
  ELSE <<48 + (n \div 100), 48 + ((n \div 10) % 10), 48 + (n % 10)>>

\* The lastEventId parameter naming event f; '0' when nothing was seen.
LastEventIdString(f) ==
  IF f = 0 THEN <<48>> ELSE DigitCodes(EventTime(f)) \o <<45, 48>>

\* The > of two JavaScript strings: code unit order, a proper prefix is less.
StringGreater(a, b) ==
  \E k \in 1..Len(a) :
    /\ \A j \in 1..(k - 1) : j <= Len(b) /\ a[j] = b[j]
    /\ k > Len(b) \/ a[k] > b[k]

\* The test of the history replay on one event:
\* !lastEventId || lastEventId === '0' || event.timestamp.toString() > lastEventId
keepHistoryEvent(timestamp, lastEventId) ==
  \/ lastEventId = <<>>
  \/ lastEventId = <<48>>
  \/ StringGreater(DigitCodes(timestamp), lastEventId)

\* A frame enqueued on the response: the connected frame or event id of the log.
Frame(type, id) == [type |-> type, id |-> id]

\* The state of an open connection: frames enqueued so far, the position of
\* the live subscription, whether the history promise is still pending.
Connection(frames, cursor, historyPending) ==
  [frames |-> frames, cursor |-> cursor, historyPending |-> historyPending]

\* start(controller): enqueue the connected frame, start the history replay
\* when asked for, and subscribe from lastEventId.
StreamConnect(p, f, includeHistory) ==
  /\ IsFree(p)
  /\ \A q \in ProcIds : procs[q].kind # "sse"
  /\ f <= Len(stream)
  /\ procs' = [procs EXCEPT ![p] =
       Proc("sse", "open", Unset, Unset, Unset,
            Some(Connection(<<Frame("connected", f)>>, f, includeHistory)),
            Some([lastEventId |-> f, includeHistory |-> includeHistory]))]
  /\ UNCHANGED <<agent, impl, store, history, stream, queue, nextId, faults,
                 interventions, redeliveries, responses>>

\* The history promise resolves: the newest HistoryCount events, oldest
\* first, those whose timestamp string is greater than lastEventId.
StreamHistory(p) ==
  /\ procs[p].kind = "sse"
  /\ Val(procs[p].res).historyPending
  /\ LET c == Val(procs[p].res)
         f == Val(procs[p].req).lastEventId
         first == IF Len(stream) > HistoryCount THEN Len(stream) - HistoryCount + 1 ELSE 1
         keep(i) == keepHistoryEvent(EventTime(i), LastEventIdString(f))
         replay == SelectSeq([k \in 1..(Len(stream) - first + 1) |-> first + k - 1], keep)
     IN procs' = [procs EXCEPT ![p].res =
          Some(Connection(c.frames \o [k \in 1..Len(replay) |->
                                         Frame(stream[replay[k]].type, replay[k])],
                          c.cursor, FALSE))]
  /\ UNCHANGED <<agent, impl, store, history, stream, queue, nextId, faults,
                 interventions, redeliveries, responses>>

\* subscribeStreamEvents hands over a batch: every event after the position.
StreamLive(p) ==
  /\ procs[p].kind = "sse"
  /\ Val(procs[p].res).cursor < Len(stream)
  /\ LET c == Val(procs[p].res)
     IN procs' = [procs EXCEPT ![p].res =
          Some(Connection(c.frames \o [k \in 1..(Len(stream) - c.cursor) |->
                                         Frame(stream[c.cursor + k].type, c.cursor + k)],
                          Len(stream), c.historyPending))]
  /\ UNCHANGED <<agent, impl, store, history, stream, queue, nextId, faults,
                 interventions, redeliveries, responses>>

\* The client goes away: cleanup aborts the subscription.
StreamCancel(p) ==
  /\ procs[p].kind = "sse"
  /\ procs' = [procs EXCEPT ![p] = IdleProc]
  /\ UNCHANGED <<agent, impl, store, history, stream, queue, nextId, faults,
                 interventions, redeliveries, responses>>

\* The resources of one connection of the stream route, one field each:
\* signal (abortController.signal.aborted), heartbeat (heartbeatInterval is
\* set), requestAborted (request.signal has fired), cancelled (the response
\* stream was cancelled by its consumer), historyPending, frames (frames
\* enqueued so far) and late (frames enqueued after the client went away).
Resources(signal, heartbeat, requestAborted, cancelled, historyPending, frames, late) ==
  [signal |-> signal, heartbeat |-> heartbeat, requestAborted |-> requestAborted,
   cancelled |-> cancelled, historyPending |-> historyPending, frames |-> frames,
   late |-> late]

\* controller.enqueue: throws on a cancelled stream (the callers catch it),
\* else one more frame.
enqueue(c) ==
  IF c.cancelled THEN c
  ELSE [c EXCEPT !.frames = @ + 1,
                 !.late = IF c.requestAborted THEN @ + 1 ELSE @]

\* start(controller): connected frame, history promise when asked for,
\* subscription, heartbeat timer, cleanup registered on request.signal and
\* stored on the controller as _cleanup.
ConnOpen(p, includeHistory) ==
  /\ IsFree(p)
  /\ procs' = [procs EXCEPT ![p] =
       Proc("conn", "open", Unset, Unset, Unset,
            Some(Resources(FALSE, TRUE, FALSE, FALSE, includeHistory, 1, 0)), Unset)]
  /\ UNCHANGED <<agent, impl, store, history, stream, queue, nextId, faults,
                 interventions, redeliveries, responses>>

\* request.signal fires abort: cleanup aborts the subscription and clears the
\* heartbeat timer.
ConnAbort(p) ==
  /\ procs[p].kind = "conn"
  /\ ~Val(procs[p].res).requestAborted
  /\ procs' = [procs EXCEPT ![p].res =
       Some([Val(procs[p].res) EXCEPT !.requestAborted = TRUE, !.signal = TRUE,
                                      !.heartbeat = FALSE])]
  /\ UNCHANGED <<agent, impl, store, history, stream, queue, nextId, faults,
                 interventions, redeliveries, responses>>

\* cancel(reason) of the underlying source: it looks for _cleanup on this,
\* the underlying source object, while start stored it on the controller;
\* nothing is found and nothing is called.
ConnCancel(p) ==
  /\ procs[p].kind = "conn"
  /\ ~Val(procs[p].res).cancelled
  /\ procs' = [procs EXCEPT ![p].res =
       Some([Val(procs[p].res) EXCEPT !.cancelled = TRUE])]
  /\ UNCHANGED <<agent, impl, store, history, stream, queue, nextId, faults,
                 interventions, redeliveries, responses>>

\* The subscription hands an event to the callback while its signal is not
\* aborted; the callback enqueues it.
ConnEvent(p) ==
  /\ procs[p].kind = "conn"
  /\ ~Val(procs[p].res).signal
  /\ Val(procs[p].res).frames < MaxFrames
  /\ procs' = [procs EXCEPT ![p].res = Some(enqueue(Val(procs[p].res)))]
  /\ UNCHANGED <<agent, impl, store, history, stream, queue, nextId, faults,
                 interventions, redeliveries, responses>>

\* The heartbeat timer fires: enqueue a heartbeat; when that throws, the
\* catch block clears the timer.
ConnHeartbeat(p) ==
  /\ procs[p].kind = "conn"
  /\ Val(procs[p].res).heartbeat
  /\ Val(procs[p].res).frames < MaxFrames
  /\ procs' = [procs EXCEPT ![p].res =
       Some(IF Val(procs[p].res).cancelled
              THEN [Val(procs[p].res) EXCEPT !.heartbeat = FALSE]
              ELSE enqueue(Val(procs[p].res)))]
  /\ UNCHANGED <<agent, impl, store, history, stream, queue, nextId, faults,
                 interventions, redeliveries, responses>>

\* The history promise resolves and replays one stored event.
ConnHistory(p) ==
  /\ procs[p].kind = "conn"
  /\ Val(procs[p].res).historyPending
  /\ Val(procs[p].res).frames < MaxFrames
  /\ procs' = [procs EXCEPT ![p].res =
       Some([enqueue(Val(procs[p].res)) EXCEPT !.historyPending = FALSE])]
  /\ UNCHANGED <<agent, impl, store, history, stream, queue, nextId, faults,
                 interventions, redeliveries, responses>>

\* The history test of the stream route applied to one stored event and a
\* lastEventId given as a decimal number; the answer is kept with its inputs.
HistoryTest(timestamp, lastEventId) ==
  /\ responses' = Resp("historyTest", 200,
                       [timestamp |-> timestamp, lastEventId |-> lastEventId,
                        kept |-> keepHistoryEvent(timestamp, DigitCodes(lastEventId))])
  /\ UNCHANGED <<agent, impl, store, history, stream, queue, nextId, procs, faults,
                 interventions, redeliveries>>

\* ------------------------------------------- AgentStateManager.saveStepResult
\* One save on its own: the pipeline overwrites the state key with newState
\* and pushes the step record on the steps list, trimmed to 200. stepIndex is
\* the step after the last saved one, or the last saved one again (the same
\* {stepIndex, newState} saved a second time).
SavedState(stepIndex) ==
  [createInitialState(<<"user">>, DefaultMaxSteps, Unset)
     EXCEPT !.status = "running", !.stepCount = stepIndex]

SaveStepResult(stepIndex) ==
  LET last == IF IsSet(store) THEN Val(store).stepCount ELSE 0
      again == IsSet(store) /\ stepIndex = last
  IN /\ stepIndex \in {last, last + 1}
     /\ stepIndex >= 1
     /\ stepIndex <= MaxSavedSteps
     /\ again => redeliveries < MaxRedeliveries
     /\ store' = Some(SavedState(stepIndex))
     /\ history' = pushStep(history, StepRecord(stepIndex, SavedState(stepIndex), <<>>))
     /\ redeliveries' = IF again THEN redeliveries + 1 ELSE redeliveries
     /\ responses' = Resp("saveStepResult", stepIndex,
                          IF again THEN "again" ELSE "first")
     /\ UNCHANGED <<agent, impl, stream, queue, nextId, procs, faults,
                    interventions>>

\* ------------------------------------- AgentRuntimeService.createSession
\* The state saved is a literal without limits or messages; the first step is
\* scheduled on /run with the caller's initial context, delay 500, priority high.
ServiceCreateSession ==
  /\ store = Unset
  /\ nextId = 0
  /\ responses.handler = "none"
  /\ store' = Some([status |-> "idle", stepCount |-> 0, messages |-> <<>>, cost |-> 0,
                    maxSteps |-> 0, costLimit |-> Unset,
                    pendingToolsCalling |-> Unset, pendingHumanPrompt |-> Unset,
                    pendingHumanSelect |-> Unset, interruption |-> Unset])
  /\ queue' = queue \cup {scheduleMessage(impl, nextId, 0, Some(Ctx("user_input", {}, FALSE)),
                                          NoPayload, "high", FirstStepDelay)}
  /\ nextId' = nextId + 1
  /\ responses' = Resp("service-session", 200, "created")
  /\ UNCHANGED <<agent, impl, history, stream, procs, faults, interventions, redeliveries>>

\* ------------------------------------- AgentRuntimeService.executeStep (/run)
\* step_start is published before the state is loaded; a missing state throws
\* into the catch block, which publishes an error event and rethrows.
\* handleHumanIntervention is a stub returning the state unchanged and no
\* context, so a task carrying a payload runs the step without a context.
RunBegin(t, p) ==
  /\ t \in queue
  /\ t.endpoint = "run"
  /\ IsFree(p)
  /\ IsSet(store) => Val(store).stepCount < MaxStepCount
  /\ IF ~IsSet(store)
       THEN /\ queue' = (queue \ {t}) \cup Redeliver(t, redeliveries)
            /\ redeliveries' = redeliveries + Cardinality(Redeliver(t, redeliveries))
            /\ stream' = stream \o <<Ev("step_start", t.stepIndex, "", ""),
                                     Ev("error", t.stepIndex, "step_execution", "")>>
            /\ responses' = Resp("run", 500, "Agent state not found")
            /\ UNCHANGED procs
       ELSE /\ queue' = queue \ {t}
            /\ stream' = Append(stream, Ev("step_start", t.stepIndex, "", ""))
            /\ procs' = [procs EXCEPT ![p] =
                 Proc("run", "exec", Some(t), store,
                      IF HasPayload(t.payload) THEN Unset ELSE t.context, Unset, Unset)]
            /\ UNCHANGED <<responses, redeliveries>>
  /\ UNCHANGED <<agent, impl, store, history, nextId, faults, interventions>>

\* Schedule the next step when shouldContinue and a next context exists; a
\* scheduling failure is not caught here and reaches the catch block.
RunSchedule(p) ==
  /\ procs[p].kind = "run"
  /\ procs[p].pc = "schedule"
  /\ LET t == Val(procs[p].task)
         r == Val(procs[p].res)
     IN IF shouldContinueExecution(r.newState, r.nextContext) /\ IsSet(r.nextContext)
          THEN \/ /\ queue' = queue \cup {scheduleMessage(impl, nextId, t.stepIndex + 1,
                                            r.nextContext, NoPayload, "normal",
                                            calculateStepDelay(r.events))}
                  /\ nextId' = nextId + 1
                  /\ procs' = [procs EXCEPT ![p].pc = "complete"]
                  /\ UNCHANGED faults
               \/ /\ faults < MaxFaults
                  /\ faults' = faults + 1
                  /\ procs' = [procs EXCEPT ![p].pc = "fail"]
                  /\ UNCHANGED <<queue, nextId>>
          ELSE /\ procs' = [procs EXCEPT ![p].pc = "complete"]
               /\ UNCHANGED <<queue, nextId, faults>>
  /\ UNCHANGED <<agent, impl, store, history, stream, interventions, responses, redeliveries>>

\* Publish step_complete and return.
RunComplete(p) ==
  /\ procs[p].kind = "run"
  /\ procs[p].pc = "complete"
  /\ stream' = Append(stream, Ev("step_complete", Val(procs[p].task).stepIndex, "", ""))
  /\ responses' = Resp("run", 200, "ok")
  /\ procs' = [procs EXCEPT ![p] = IdleProc]
  /\ UNCHANGED <<agent, impl, store, history, queue, nextId, faults, interventions, redeliveries>>

\* The catch block: publish an error event and rethrow.
RunFail(p) ==
  /\ procs[p].kind = "run"
  /\ procs[p].pc = "fail"
  /\ stream' = Append(stream, Ev("error", Val(procs[p].task).stepIndex, "step_execution", ""))
  /\ queue' = queue \cup Redeliver(Val(procs[p].task), redeliveries)
  /\ redeliveries' = redeliveries + Cardinality(Redeliver(Val(procs[p].task), redeliveries))
  /\ responses' = Resp("run", 500, "error")
  /\ procs' = [procs EXCEPT ![p] = IdleProc]
  /\ UNCHANGED <<agent, impl, store, history, nextId, faults, interventions>>

\* ------------------------------------------------- human intervention
\* A request body: action, data.approvedToolCall, data.input, data.selection.
Req(action, approvedToolCall, input, selection) ==
  [action |-> action, approvedToolCall |-> approvedToolCall, input |-> input,
   selection |-> selection]

Requests ==
  {Req("approve", Some(tc), Unset, Unset) : tc \in ToolCalls}
    \cup {Req("reject", Unset, Unset, Unset), Req("input", Unset, Some("x"), Unset),
          Req("select", Unset, Unset, Some({"a"}))}

\* The payload an accepted request puts on the immediate step.
RequestPayload(req, humanInput) ==
  CASE req.action = "approve" -> Payload(req.approvedToolCall, Unset, Unset)
    [] req.action = "reject" -> Payload(Unset, Some("no"), Unset)
    [] OTHER -> Payload(Unset, Unset, Some(humanInput))

\* Human-intervention route, steps 1-2: load the state, 404 when missing, 409
\* when not waiting_for_human_input, else publish step_start.
HIBegin(req, p) ==
  /\ interventions < MaxInterventions
  /\ IsFree(p)
  /\ interventions' = interventions + 1
  /\ IF ~IsSet(store)
       THEN /\ responses' = Resp("human-intervention", 404, "Session not found")
            /\ UNCHANGED <<stream, procs>>
       ELSE IF Val(store).status # "waiting_for_human_input"
         THEN /\ responses' = Resp("human-intervention", 409,
                                   "Session is not waiting for human input")
              /\ UNCHANGED <<stream, procs>>
         ELSE /\ stream' = Append(stream, Ev("step_start", Val(store).stepCount,
                                             "human_intervention", req.action))
              /\ procs' = [procs EXCEPT ![p] =
                   Proc("hi", "schedule", Unset, store, Unset, Unset, Some(req))]
              /\ UNCHANGED responses
  /\ UNCHANGED <<agent, impl, store, history, queue, nextId, faults, redeliveries>>

\* Step 3: does the request match the pending field of the loaded state?
\* 0 when it does, else the status code of the refusal.
ValidateIntervention(req, currentState) ==
  CASE req.action = "approve" ->
         IF ~IsSet(req.approvedToolCall) THEN 400
         ELSE IF ~IsSet(currentState.pendingToolsCalling) THEN 409
         ELSE IF ~\E tool \in Val(currentState.pendingToolsCalling) :
                     tool.id = Val(req.approvedToolCall).id THEN 400
         ELSE 0
    [] req.action = "reject" ->
         IF ~IsSet(currentState.pendingToolsCalling) THEN 409 ELSE 0
    [] req.action = "input" ->
         IF ~IsSet(req.input) THEN 400
         ELSE IF ~IsSet(currentState.pendingHumanPrompt) THEN 409
         ELSE 0
    [] req.action = "select" ->
         IF ~IsSet(req.selection) THEN 400
         ELSE IF ~IsSet(currentState.pendingHumanSelect) THEN 409
         ELSE IF ~(Val(req.selection) \subseteq Val(currentState.pendingHumanSelect)) THEN 400
         ELSE 0
    [] OTHER -> 400

\* A handler whose failed scheduling leaves the immediate step on the queue.
HIScheduleLeavesTask(p) ==
  /\ procs[p].kind = "hi"
  /\ procs[p].pc = "schedule"
  /\ LET req == Val(procs[p].req)
         currentState == Val(procs[p].st)
         code == ValidateIntervention(req, currentState)
     IN IF code # 0
          THEN /\ responses' = Resp("human-intervention", code, "refused")
               /\ procs' = [procs EXCEPT ![p] = IdleProc]
               /\ UNCHANGED <<queue, nextId, stream, faults>>
          ELSE \/ /\ queue' = queue \cup {scheduleImmediateStep(impl, nextId,
                                 currentState.stepCount, Unset,
                                 RequestPayload(req, req.action))}
                  /\ nextId' = nextId + 1
                  /\ procs' = [procs EXCEPT ![p].pc = "complete"]
                  /\ UNCHANGED <<stream, faults, responses>>
               \/ /\ faults < MaxFaults
                  /\ faults' = faults + 1
                  /\ stream' = Append(stream, Ev("error", currentState.stepCount,
                                                 "human_intervention_scheduling", req.action))
                  /\ responses' = Resp("human-intervention", 500, "Failed to schedule")
                  /\ procs' = [procs EXCEPT ![p] = IdleProc]
                  /\ queue' = queue \cup {scheduleImmediateStep(impl, nextId,
                                 currentState.stepCount, Unset,
                                 RequestPayload(req, req.action))}
                  /\ nextId' = nextId + 1
  /\ UNCHANGED <<agent, impl, store, history, interventions, redeliveries>>

\* Steps 3-4: validate, then scheduleImmediateStep; a scheduling failure
\* publishes an error event and answers 500.
HISchedule(p) ==
  /\ procs[p].kind = "hi"
  /\ procs[p].pc = "schedule"
  /\ LET req == Val(procs[p].req)
         currentState == Val(procs[p].st)
         code == ValidateIntervention(req, currentState)
     IN IF code # 0
          THEN /\ responses' = Resp("human-intervention", code, "refused")
               /\ procs' = [procs EXCEPT ![p] = IdleProc]
               /\ UNCHANGED <<queue, nextId, stream, faults>>
          ELSE \/ /\ queue' = queue \cup {scheduleImmediateStep(impl, nextId,
                                 currentState.stepCount, Unset,
                                 RequestPayload(req, req.action))}
                  /\ nextId' = nextId + 1
                  /\ procs' = [procs EXCEPT ![p].pc = "complete"]
                  /\ UNCHANGED <<stream, faults, responses>>
               \/ /\ faults < MaxFaults
                  /\ faults' = faults + 1
                  /\ stream' = Append(stream, Ev("error", currentState.stepCount,
                                                 "human_intervention_scheduling", req.action))
                  /\ responses' = Resp("human-intervention", 500, "Failed to schedule")
                  /\ procs' = [procs EXCEPT ![p] = IdleProc]
                  /\ UNCHANGED <<queue, nextId>>
  /\ UNCHANGED <<agent, impl, store, history, interventions, redeliveries>>

\* A handler that labels its step_complete with the index after the stored count.
HICompleteAhead(p) ==
  /\ procs[p].kind = "hi"
  /\ procs[p].pc = "complete"
  /\ stream' = Append(stream, Ev("step_complete", Val(procs[p].st).stepCount + 1,
                                 "human_intervention_processed", Val(procs[p].req).action))
  /\ responses' = Resp("human-intervention", 200, "processed")
  /\ procs' = [procs EXCEPT ![p] = IdleProc]
  /\ UNCHANGED <<agent, impl, store, history, queue, nextId, faults, interventions, redeliveries>>

\* Step 5: publish step_complete (human_intervention_processed), answer 200.
HIComplete(p) ==
  /\ procs[p].kind = "hi"
  /\ procs[p].pc = "complete"
  /\ stream' = Append(stream, Ev("step_complete", Val(procs[p].st).stepCount,
                                 "human_intervention_processed", Val(procs[p].req).action))
  /\ responses' = Resp("human-intervention", 200, "processed")
  /\ procs' = [procs EXCEPT ![p] = IdleProc]
  /\ UNCHANGED <<agent, impl, store, history, queue, nextId, faults, interventions, redeliveries>>

\* Human-intervention route over AgentRuntimeService.processHumanIntervention:
\* only the request's own fields are checked, the state is never loaded, and
\* an immediate message for step 0 is scheduled on /run.
HIService(req) ==
  /\ interventions < MaxInterventions
  /\ interventions' = interventions + 1
  /\ IF (req.action = "approve" /\ ~IsSet(req.approvedToolCall))
          \/ (req.action = "input" /\ ~IsSet(req.input))
          \/ (req.action = "select" /\ ~IsSet(req.selection))
          \/ req.action \notin {"approve", "reject", "input", "select"}
       THEN /\ responses' = Resp("human-intervention-service", 400, "refused")
            /\ UNCHANGED <<queue, nextId, faults>>
       ELSE \/ /\ queue' = queue \cup {scheduleMessage(impl, nextId, 0, Unset,
                              RequestPayload(req, req.action), "high", ImmediateDelay)}
               /\ nextId' = nextId + 1
               /\ responses' = Resp("human-intervention-service", 200, "processed")
               /\ UNCHANGED faults
            \/ /\ faults < MaxFaults
               /\ faults' = faults + 1
               /\ responses' = Resp("human-intervention-service", 500, "error")
               /\ UNCHANGED <<queue, nextId>>
  /\ UNCHANGED <<agent, impl, store, history, stream, procs, redeliveries>>

\* -------------------------------------------------------- PATCH /session
\* The limits a configuration update asks for.
PatchInputs ==
  {[maxSteps |-> 5,
    costLimit |-> Some([maxTotalCost |-> 1, onExceeded |-> "continue"])]}

\* Step 1: load the state, 404 when missing. A body with maxSteps and
\* costLimit only passes the check of step 2 whatever the status.
PatchBegin(p, body) ==
  /\ IsFree(p)
  /\ IF ~IsSet(store)
       THEN /\ responses # Resp("session-patch", 404, "Session not found")
            /\ responses' = Resp("session-patch", 404, "Session not found")
            /\ UNCHANGED procs
       ELSE /\ Val(store).maxSteps # body.maxSteps \/ Val(store).costLimit # body.costLimit
            /\ procs' = [procs EXCEPT ![p] =
                 Proc("patch", "save", Unset, store, Unset, Unset, Some(body))]
            /\ UNCHANGED responses
  /\ UNCHANGED <<agent, impl, store, history, stream, queue, nextId, faults,
                 interventions, redeliveries>>

\* Steps 3-4: copy the loaded state, set the limits, saveAgentState; 200.
PatchSave(p) ==
  /\ procs[p].kind = "patch"
  /\ procs[p].pc = "save"
  /\ store' = Some([Val(procs[p].st) EXCEPT !.maxSteps = Val(procs[p].req).maxSteps,
                                            !.costLimit = Val(procs[p].req).costLimit])
  /\ responses' = Resp("session-patch", 200, "updated")
  /\ procs' = [procs EXCEPT ![p] = IdleProc]
  /\ UNCHANGED <<agent, impl, history, stream, queue, nextId, faults, interventions,
                 redeliveries>>

\* ------------------------------------- client: internal_cleanupAgentSession
\* An entry of agentSessions: whether it holds an EventSource, and its status.
AgentSession(eventSource, status) == [eventSource |-> eventSource, status |-> status]

\* The client while internal_cleanupAgentSession runs: the entry of
\* agentSessions (an option), the nested calls on the stack, how often the
\* native close of the EventSource ran, the deleteSession requests sent.
Client(session, depth, closes, deletes) ==
  [session |-> session, depth |-> depth, closes |-> closes, deletes |-> deletes]

\* A call of internal_cleanupAgentSession starts: read the entry, return when
\* there is none; with an EventSource call its close, which
\* createStreamConnection wrapped into originalClose() followed by
\* onDisconnect(), and onDisconnect calls internal_cleanupAgentSession. A call
\* the stack has no room for raises a RangeError that nothing catches.
CleanupEnter(p) ==
  /\ procs[p].kind = "cleanup"
  /\ procs[p].pc = "enter"
  /\ LET c == Val(procs[p].res)
     IN procs' = [procs EXCEPT ![p] =
          IF c.depth >= MaxStackDepth
            THEN [@ EXCEPT !.pc = "thrown"]
          ELSE IF ~IsSet(c.session)
            THEN IF c.depth = 0
                   THEN [@ EXCEPT !.pc = "returned"]
                   ELSE [@ EXCEPT !.pc = "after_close",
                                  !.res = Some([c EXCEPT !.depth = @ - 1])]
          ELSE IF Val(c.session).eventSource
            THEN [@ EXCEPT !.res = Some([c EXCEPT !.closes = @ + 1, !.depth = @ + 1])]
          ELSE [@ EXCEPT !.pc = "after_close"]]
  /\ UNCHANGED <<agent, impl, store, history, stream, queue, nextId, faults,
                 interventions, redeliveries, responses>>

\* The rest of a call once close has returned: delete the entry, ask the
\* server to delete a session that ended in error, and return to the caller.
CleanupFinish(p) ==
  /\ procs[p].kind = "cleanup"
  /\ procs[p].pc = "after_close"
  /\ LET c == Val(procs[p].res)
         session == Val(procs[p].st)
         done == [c EXCEPT !.session = Unset,
                           !.deletes = IF session.status = "error" THEN @ + 1 ELSE @]
     IN procs' = [procs EXCEPT ![p] =
          IF c.depth = 0
            THEN [@ EXCEPT !.pc = "returned", !.res = Some(done)]
            ELSE [@ EXCEPT !.res = Some([done EXCEPT !.depth = @ - 1])]]
  /\ UNCHANGED <<agent, impl, store, history, stream, queue, nextId, faults,
                 interventions, redeliveries, responses>>

\* ------------------------------------------------------- DELETE /session
\* The state a deletion of a running session saves before deleting.
interruptedState(currentState) ==
  [currentState EXCEPT !.status = "interrupted",
                       !.interruption = Some([reason |-> "Session deleted by user",
                                              canResume |-> FALSE])]

\* Steps 1-2: load the state (404 when missing); a running session is saved
\* as interrupted, canResume false.
DeleteBegin(p) ==
  /\ IsFree(p)
  /\ IF ~IsSet(store)
       THEN /\ responses # Resp("session-delete", 404, "Session not found")
            /\ responses' = Resp("session-delete", 404, "Session not found")
            /\ UNCHANGED <<store, procs>>
       ELSE IF Val(store).status = "running"
         THEN /\ store' = Some(interruptedState(Val(store)))
              /\ procs' = [procs EXCEPT ![p] =
                   Proc("delete", "publish", Unset, Some(interruptedState(Val(store))),
                        Unset, Unset, Unset)]
              /\ UNCHANGED responses
         ELSE /\ procs' = [procs EXCEPT ![p] =
                   Proc("delete", "remove", Unset, store, Unset, Unset, Unset)]
              /\ UNCHANGED <<store, responses>>
  /\ UNCHANGED <<agent, impl, history, stream, queue, nextId, faults, interventions,
                 redeliveries>>

\* Step 2, continued: publish the error event noting the deletion; a failing
\* publish reaches the catch block (500) with the state left interrupted.
DeletePublish(p) ==
  /\ procs[p].kind = "delete"
  /\ procs[p].pc = "publish"
  /\ \/ /\ stream' = Append(stream, Ev("error", Val(procs[p].st).stepCount,
                                       "session_deleted", ""))
        /\ procs' = [procs EXCEPT ![p].pc = "remove"]
        /\ UNCHANGED <<faults, responses>>
     \/ /\ faults < MaxFaults
        /\ faults' = faults + 1
        /\ responses' = Resp("session-delete", 500, "error")
        /\ procs' = [procs EXCEPT ![p] = IdleProc]
        /\ UNCHANGED stream
  /\ UNCHANGED <<agent, impl, store, history, queue, nextId, interventions, redeliveries>>

\* Step 3, one half of the Promise.all: deleteAgentSession removes state,
\* steps and metadata in one del; its failure rejects the Promise.all (500)
\* while a cleanup not yet finished completes or not.
DeleteState(p) ==
  /\ procs[p].kind = "delete"
  /\ procs[p].pc \in {"remove", "removed_stream"}
  /\ \/ /\ store' = Unset
        /\ history' = <<>>
        /\ procs' = [procs EXCEPT ![p].pc = IF procs[p].pc = "remove"
                                              THEN "removed_state" ELSE "return"]
        /\ UNCHANGED <<stream, faults, responses>>
     \/ /\ faults < MaxFaults
        /\ faults' = faults + 1
        /\ responses' = Resp("session-delete", 500, "error")
        /\ procs' = [procs EXCEPT ![p] = IdleProc]
        /\ stream' \in (IF procs[p].pc = "remove" THEN {stream, <<>>} ELSE {stream})
        /\ UNCHANGED <<store, history>>
  /\ UNCHANGED <<agent, impl, queue, nextId, interventions, redeliveries>>

\* Step 3, other half: cleanupSession deletes the event log; its failure is
\* swallowed inside cleanupSession.
DeleteStream(p) ==
  /\ procs[p].kind = "delete"
  /\ procs[p].pc \in {"remove", "removed_state"}
  /\ \/ /\ stream' = <<>>
        /\ UNCHANGED faults
     \/ /\ faults < MaxFaults
        /\ faults' = faults + 1
        /\ UNCHANGED stream
  /\ procs' = [procs EXCEPT ![p].pc = IF procs[p].pc = "remove"
                                        THEN "removed_stream" ELSE "return"]
  /\ UNCHANGED <<agent, impl, store, history, queue, nextId, interventions,
                 redeliveries, responses>>

\* Answer 200.
DeleteReturn(p) ==
  /\ procs[p].kind = "delete"
  /\ procs[p].pc = "return"
  /\ responses' = Resp("session-delete", 200, "deleted")
  /\ procs' = [procs EXCEPT ![p] = IdleProc]
  /\ UNCHANGED <<agent, impl, store, history, stream, queue, nextId, faults,
                 interventions, redeliveries>>

\* Inputs of session creation: maxSteps (0 = not given) and costLimit.
MaxStepsInputs == {2, 0}
CostLimitInputs ==
  {Unset, Some([maxTotalCost |-> 1, onExceeded |-> "stop"]),
   Some([maxTotalCost |-> 1, onExceeded |-> "continue"])}

\* The session route.
NextSession ==
  \E m \in MaxStepsInputs, cl \in CostLimitInputs, a \in BOOLEAN : CreateSession(m, cl, a)

\* The execute-step route on a task without an intervention payload.
NextStep ==
  \/ \E t \in queue, p \in ProcIds : StepBegin(t, p)
  \/ \E p \in ProcIds : StepExecute(p)
  \/ \E p \in ProcIds : StepSave(p)
  \/ \E p \in ProcIds : StepComplete(p)
  \/ \E p \in ProcIds : StepSchedule(p)
  \/ \E p \in ProcIds : StepFail(p)

\* The human-intervention route and the intervention branch of execute-step.
NextIntervention ==
  \/ \E req \in Requests, p \in ProcIds : HIBegin(req, p)
  \/ \E p \in ProcIds : HISchedule(p)
  \/ \E p \in ProcIds : HIComplete(p)
  \/ \E p \in ProcIds : StepIntervene(p)
  \/ \E p \in ProcIds : StepRejectSave(p)

\* AgentRuntimeService and the human-intervention handler built on it.
NextService ==
  \/ ServiceCreateSession
  \/ \E t \in queue, p \in ProcIds : RunBegin(t, p)
  \/ \E p \in ProcIds : RunSchedule(p)
  \/ \E p \in ProcIds : RunComplete(p)
  \/ \E p \in ProcIds : RunFail(p)
  \/ \E req \in Requests : HIService(req)

Next == NextSession \/ NextStep \/ NextIntervention

Spec == Init /\ [][Next]_vars

\* The session route's own human-intervention handler goes through
\* AgentRuntimeService while sessions are created and stepped as above: a
\* session with the default limits, auto-started, under an agent whose policy
\* demands approval.
InitService == Init /\ agent = "policy_approve"

NextServiceSession == CreateSession(0, Unset, TRUE)

SpecService == InitService /\ [][NextServiceSession \/ NextStep \/ NextService]_vars

\* The session route's DELETE next to the execute-step route, on a session
\* created with the default limits and auto-started.
NextDelete ==
  \/ \E p \in ProcIds : DeleteBegin(p)
  \/ \E p \in ProcIds : DeletePublish(p)
  \/ \E p \in ProcIds : DeleteState(p)
  \/ \E p \in ProcIds : DeleteStream(p)
  \/ \E p \in ProcIds : DeleteReturn(p)

InitDelete == Init /\ agent = "policy_auto"

SpecDelete == InitDelete /\ [][NextServiceSession \/ NextStep \/ NextDelete]_vars

\* The routes of Spec with the delivery of the simple queue's timer.
NextQueue == \E t \in queue : DeliveryLost(t)

SpecQueue == Init /\ [][NextSession \/ NextStep \/ NextQueue]_vars

\* The delay policy on its own, over all parameters up to MaxDelayStepIndex.
NextDelay == \E params \in DelayParams : CalculateDelay(params)

SpecDelay == Init /\ [][NextDelay]_vars

\* The stream route next to the execute-step route that publishes the events.
NextStream ==
  \/ \E p \in ProcIds, f \in 0..MaxLastEventId, includeHistory \in BOOLEAN :
       StreamConnect(p, f, includeHistory)
  \/ \E p \in ProcIds : StreamHistory(p)
  \/ \E p \in ProcIds : StreamLive(p)
  \/ \E p \in ProcIds : StreamCancel(p)

InitStream == Init /\ agent = "durable" /\ impl = "qstash"

SpecStream == InitStream /\ [][NextServiceSession \/ NextStep \/ NextStream]_vars

\* The history test on its own, over all timestamps and ids up to MaxTimestamp.
NextHistoryTest ==
  \E timestamp \in 0..MaxTimestamp, lastEventId \in 0..MaxTimestamp :
    HistoryTest(timestamp, lastEventId)

SpecHistoryTest == Init /\ [][NextHistoryTest]_vars

\* The session route with its GET next to the execute-step route.
NextStatus == GetStatus

SpecStatus == Init /\ [][NextSession \/ NextStep \/ NextStatus]_vars

\* saveStepResult on its own, over runs of saves long enough to fill the list.
NextSave == \E stepIndex \in 1..MaxSavedSteps : SaveStepResult(stepIndex)

InitSave == Init /\ agent = "durable" /\ impl = "qstash"

SpecSave == InitSave /\ [][NextSave]_vars

\* The LLM executor on its own, over all chunk sequences up to MaxChunks.
MessageInputs ==
  {<<>>, <<[role |-> "user", content |-> "hi", tool_calls |-> <<>>]>>}

NextLLM == \E p \in ProcIds : LLMCall(p)

InitLLM ==
  /\ agent = "durable" /\ impl = "qstash"
  /\ store = Unset /\ history = <<>> /\ stream = <<>> /\ queue = {} /\ nextId = 0
  /\ faults = 0 /\ interventions = 0 /\ redeliveries = 0
  /\ responses = Resp("none", 0, "")
  /\ \E messages \in MessageInputs, chunks \in SeqsUpTo(ChunkSet, MaxChunks) :
       procs = [p \in ProcIds |->
                  IF p = 1 THEN Proc("llm", "call", Unset, Some(messages), Unset, Unset,
                                     Some(chunks))
                  ELSE IdleProc]

SpecLLM == InitLLM /\ [][NextLLM]_vars

\* The tool executor on its own, over both tool calls and small states.
ToolStateInputs ==
  {[createInitialState(messages, DefaultMaxSteps, Unset) EXCEPT !.status = status] :
     messages \in SeqsUpTo({"user", "assistant+tool_calls"}, 2),
     status \in {"idle", "running"}}

NextTool == \E p \in ProcIds : ToolCall(p)

InitTool ==
  /\ agent = "durable" /\ impl = "qstash"
  /\ store = Unset /\ history = <<>> /\ stream = <<>> /\ queue = {} /\ nextId = 0
  /\ faults = 0 /\ interventions = 0 /\ redeliveries = 0
  /\ responses = Resp("none", 0, "")
  /\ \E toolCall \in ToolCalls, stepIndex \in 0..MaxStepCount, state \in ToolStateInputs :
       procs = [p \in ProcIds |->
                  IF p = 1 THEN Proc("tool", "call", Some(stepIndex), Some(state), Unset,
                                     Unset, Some(toolCall))
                  ELSE IdleProc]

SpecTool == InitTool /\ [][NextTool]_vars

\* Connections of the stream route and the ways their clients go away.
NextConn ==
  \/ \E p \in ProcIds, includeHistory \in BOOLEAN : ConnOpen(p, includeHistory)
  \/ \E p \in ProcIds : ConnAbort(p)
  \/ \E p \in ProcIds : ConnCancel(p)
  \/ \E p \in ProcIds : ConnEvent(p)
  \/ \E p \in ProcIds : ConnHeartbeat(p)
  \/ \E p \in ProcIds : ConnHistory(p)

SpecConn == InitSave /\ [][NextConn]_vars

\* The session route's PATCH next to the execute-step route.
NextPatch ==
  \/ \E p \in ProcIds, body \in PatchInputs : PatchBegin(p, body)
  \/ \E p \in ProcIds : PatchSave(p)

InitPatch == Init /\ agent = "policy_auto" /\ impl = "simple"

SpecPatch == InitPatch /\ [][NextServiceSession \/ NextStep \/ NextPatch]_vars

\* The client's cleanup on its own, over the entries agentSessions may hold.
AgentSessionInputs ==
  {Unset} \cup {Some(AgentSession(eventSource, status)) :
                  eventSource \in BOOLEAN, status \in {"running", "done", "error"}}

NextCleanup ==
  \/ \E p \in ProcIds : CleanupEnter(p)
  \/ \E p \in ProcIds : CleanupFinish(p)

InitCleanup ==
  /\ agent = "durable" /\ impl = "qstash"
  /\ store = Unset /\ history = <<>> /\ stream = <<>> /\ queue = {} /\ nextId = 0
  /\ faults = 0 /\ interventions = 0 /\ redeliveries = 0
  /\ responses = Resp("none", 0, "")
  /\ \E session \in AgentSessionInputs :
       procs = [p \in ProcIds |->
                  IF p = 1 THEN Proc("cleanup", "enter", Unset, session, Unset,
                                     Some(Client(session, 0, 0, 0)), Unset)
                  ELSE IdleProc]

SpecCleanup == InitCleanup /\ [][NextCleanup]_vars

\* The timer queue on its own: schedule calls for steps 0 and 1 of one session.
NextTimers ==
  \/ \E p \in ProcIds, stepIndex \in 0..1 : TimerSchedule(p, stepIndex)
  \/ \E p \in ProcIds : TimerTick(p)
  \/ \E p \in ProcIds, uid \in 0..(MaxTasks - 1), stepIndex \in 0..1, now \in 0..MaxClock,
          cancelRequested \in BOOLEAN :
       \/ TimerFire(p, Timer(uid, TaskId(stepIndex, now), FALSE, cancelRequested))
       \/ TimerSettle(p, Timer(uid, TaskId(stepIndex, now), TRUE, cancelRequested))
  \/ \E p \in ProcIds, stepIndex \in 0..1, now \in 0..MaxClock :
       TimerCancel(p, TaskId(stepIndex, now))

InitTimers ==
  /\ agent = "durable" /\ impl = "simple"
  /\ store = Unset /\ history = <<>> /\ stream = <<>> /\ queue = {} /\ nextId = 0
  /\ faults = 0 /\ interventions = 0 /\ redeliveries = 0
  /\ responses = Resp("none", 0, "")
  /\ procs = [p \in ProcIds |->
                IF p = 1 THEN Proc("timers", "", Unset, Unset, Unset,
                                   Some(TimerQueue({}, {}, 0, 0, {})), Unset)
                ELSE IdleProc]

SpecTimers == InitTimers /\ [][NextTimers]_vars

\* The runner on its own, over all contexts.
NextRunner == \E p \in ProcIds, context \in Contexts : RunnerCall(p, context)

SpecRunner == Init /\ [][NextRunner]_vars

\* ================================================================ claims
Waiting == "waiting_for_human_input"

\* How many of the three pending_* fields a state has set.
PendingCount(st) ==
  (IF IsSet(st.pendingToolsCalling) THEN 1 ELSE 0)
    + (IF IsSet(st.pendingHumanPrompt) THEN 1 ELSE 0)
    + (IF IsSet(st.pendingHumanSelect) THEN 1 ELSE 0)

\* The continuation rule as the specification words it.
ContinuationRule(st, nextContext) ==
  /\ st.status \notin {"done", Waiting, "error", "interrupted"}
  /\ st.maxSteps # 0 => st.stepCount < st.maxSteps
  /\ IsSet(st.costLimit) =>
       \/ st.cost < Val(st.costLimit).maxTotalCost
       \/ Val(st.costLimit).onExceeded # "stop"
  /\ IsSet(nextContext)

\* C1: once the persisted status is done or error, no operation schedules a
\* new step task for the session (nextId counts the tasks scheduled).
C1_NoEnqueueAfterTerminal ==
  [][(IsSet(store) /\ Val(store).status \in {"done", "error"}) => nextId' = nextId]_vars

StaleDelivery(p) ==
  /\ procs[p].kind = "step"
  /\ ~HasPayload(Val(procs[p].task).payload)
  /\ Val(procs[p].task).stepIndex < Val(procs[p].st).stepCount

C4_DuplicateDeliveryIdempotent ==
  [][\A p \in ProcIds :
       (StaleDelivery(p) /\ procs'[p] # procs[p])
         => (store' = store /\ history' = history /\ nextId' = nextId)]_vars

\* C5: at most one step execution of the session is between loading the state
\* and committing its result at any time.
StepsExecuting ==
  {p \in ProcIds : procs[p].kind \in {"step", "run"}
                     /\ procs[p].pc \in {"intervene", "exec", "save", "reject_save"}}

ApprovalRequested(p) ==
  /\ procs[p].kind = "step"
  /\ procs[p].pc \in {"save", "complete", "schedule"}
  /\ IsSet(procs[p].ctx)
  /\ agentRunner(agent, Val(procs[p].ctx)).type = "request_human_approve"

C7_InterventionRejectedUnlessWaiting ==
  [][(interventions' # interventions /\ IsSet(store) /\ Val(store).status # Waiting)
       => (nextId' = nextId /\ stream' = stream /\ store' = store
             /\ responses'.code = 409)]_vars

\* C8: on a session waiting for human input, a newly scheduled task carries an
\* intervention payload only when the payload matches the pending field:
\* an approved tool call whose id is pending, a rejection while tool calls are
\* pending, an input while a prompt is pending, a selection among the options.
PayloadMatchesPending(pl, st) ==
  /\ IsSet(pl.approvedToolCall) =>
       /\ IsSet(st.pendingToolsCalling)
       /\ \E tool \in Val(st.pendingToolsCalling) : tool.id = Val(pl.approvedToolCall).id
  /\ IsSet(pl.rejectionReason) => IsSet(st.pendingToolsCalling)
  /\ (IsSet(pl.humanInput) /\ Val(pl.humanInput) = "input") => IsSet(st.pendingHumanPrompt)
  /\ (IsSet(pl.humanInput) /\ Val(pl.humanInput) = "select") => IsSet(st.pendingHumanSelect)

AnswersPending(pl, st) ==
  \/ /\ IsSet(pl.approvedToolCall)
     /\ IsSet(st.pendingToolsCalling)
     /\ Val(pl.approvedToolCall) \in Val(st.pendingToolsCalling)
  \/ /\ IsSet(pl.humanInput)
     /\ \/ Val(pl.humanInput) = "input" /\ IsSet(st.pendingHumanPrompt)
        \/ Val(pl.humanInput) = "select" /\ IsSet(st.pendingHumanSelect)

IsFirstStepTask(t) ==
  /\ t.endpoint = "execute-step"
  /\ t.stepIndex = 0
  /\ IsSet(t.context) /\ Val(t.context).phase = "user_input"
  /\ t.delay = FirstStepDelay
  /\ ~HasPayload(t.payload)

SessionAnswered == responses.handler = "none" /\ responses'.handler = "session"

DeletedEvent(st) == Ev("error", st.stepCount, "session_deleted", "")

\* The deletion handler p has marked a running session before deleting.
MarkedByDelete(p) ==
  /\ procs[p].kind = "delete"
  /\ IsSet(procs[p].st)
  /\ Val(procs[p].st).status = "interrupted"
  /\ Val(procs[p].st).interruption = Some([reason |-> "Session deleted by user",
                                           canResume |-> FALSE])

\* The order of a deletion: a running session is first saved as interrupted
\* with canResume false, then the error event is published, and state,
\* history or event log are removed only by a handler that is past both.
DeleteOrder ==
  \A p \in ProcIds :
    /\ (procs[p].kind = "idle" /\ procs'[p].kind = "delete" /\ Val(store).status = "running")
         => /\ store' = Some(interruptedState(Val(store)))
            /\ Val(store').interruption = Some([reason |-> "Session deleted by user",
                                                canResume |-> FALSE])
            /\ procs'[p].pc = "publish"
            /\ stream' = stream /\ history' = history
    /\ (/\ procs[p].kind = "delete" /\ procs[p].pc = "publish"
        /\ procs'[p].kind = "delete" /\ procs'[p].pc # "publish")
         => /\ procs'[p].pc = "remove"
            /\ stream' = Append(stream, DeletedEvent(Val(procs[p].st)))
            /\ store' = store /\ history' = history
    /\ (/\ procs[p].kind = "delete" /\ procs'[p] # procs[p]
        /\ \/ (IsSet(store) /\ store' = Unset)
           \/ (stream # <<>> /\ stream' = <<>>))
         => /\ procs[p].pc \in {"remove", "removed_state", "removed_stream"}
            /\ Val(procs[p].st).status # "running"
            /\ (store' = Unset => history' = <<>>)

\* C12: deleting a running session first persists interrupted
\* with canResume false and publishes an error event, only then deletes
\* state, history, metadata and the event log; when it returns, loading the
\* state yields nothing and the event log is empty.
C12_DeleteLeavesNothing ==
  [][/\ DeleteOrder
     /\ \A p \in ProcIds :
          (MarkedByDelete(p) /\ procs[p].pc = "return" /\ procs'[p].kind = "idle")
            => /\ responses' = Resp("session-delete", 200, "deleted")
               /\ store' = Unset
               /\ history' = <<>>
               /\ stream' = <<>>]_vars

\* ---------------------------------------------------------------- C13
\* A step task leaves the queue while the stored status is interrupted.
DeliveredInterrupted ==
  /\ IsSet(store)
  /\ Val(store).status = "interrupted"
  /\ \E t \in queue : t.endpoint = "execute-step" /\ t \notin queue'

\* C13: a step task delivered for a session whose loaded status is
\* interrupted is aborted at load time: no handler goes on to execute an
\* instruction, nothing is published, the state is not modified and no next
\* step is enqueued.
C13_InterruptedStepAborted ==
  [][DeliveredInterrupted =>
       /\ \A p \in ProcIds : procs[p].kind = "idle" => procs'[p].kind = "idle"
       /\ stream' = stream
       /\ store' = store
       /\ history' = history
       /\ queue' \subseteq queue]_vars

\* ---------------------------------------------------------------- C15
\* The handler p of a step has hit a fault and now answers the queue.
FaultAnswered(p) ==
  /\ procs[p].kind \in {"step", "run"}
  /\ procs[p].pc = "fail"
  /\ procs'[p].kind = "idle"

\* C15: every fault inside a step execution (executor fault, failing save of
\* the state store, failing event store) is surfaced: when the handler
\* answers, an error event of that step is on the session's stream and the
\* answer to the queue is 500.
C15_FaultSurfaced ==
  [][\A p \in ProcIds :
       FaultAnswered(p) =>
         /\ responses'.code = 500
         /\ \E i \in DOMAIN stream' :
              /\ stream'[i].type = "error"
              /\ stream'[i].stepIndex = Val(procs[p].task).stepIndex]_vars

\* ---------------------------------------------------------------- C16
\* The endpoint receives the callback of task t: a handler starts on its
\* session, step index and context, or the endpoint answers 404.
Callback(t) ==
  \/ \E p \in ProcIds :
       /\ procs[p].kind = "idle"
       /\ procs'[p].kind \in {"step", "run"}
       /\ procs'[p].task = Some(t)
       /\ procs'[p].ctx = t.context
  \/ responses' = Resp(t.endpoint, 404, "Agent session not found")

\* C16: with either queue implementation an accepted task results in at
\* least one callback to the step endpoint carrying its session, step index
\* and context: no task leaves the queue other than by such a callback.
C16_AcceptedTaskCalledBack ==
  [][\A t \in queue : t \notin queue' => Callback(t)]_vars

\* ---------------------------------------------------------------- C17
\* The callback body a task delivers.
Body(t) ==
  [stepIndex |-> t.stepIndex, context |-> t.context, payload |-> t.payload,
   priority |-> t.priority]

Attempt(t) == IF impl = "simple" THEN 1 ELSE Retries - t.retriesLeft + 1

\* C18: when the step endpoint answers a callback with a non-2xx response the
\* queue delivers the task again, up to 3 attempts in total and never more.
C18_RedeliveryUpToThree ==
  [][\A p \in ProcIds :
       (/\ procs[p].kind \in {"step", "run"} /\ procs'[p].kind = "idle"
        /\ responses'.code >= 300
        /\ redeliveries < MaxRedeliveries) =>
         LET t == Val(procs[p].task)
             attempt == Attempt(t)
             again == {u \in queue' \ queue : u.id = t.id}
         IN IF attempt < 3 THEN Cardinality(again) = 1 ELSE again = {}]_vars

\* ---------------------------------------------------------------- C19
\* The delay the policy prescribes, term by term.
PolicyDelay(params) ==
  (CASE params.priority = "high" -> 200
     [] params.priority = "normal" -> 1000
     [] params.priority = "low" -> 5000)
  + (IF params.hasToolCalls THEN 1000 ELSE 0)
  + (IF params.hasErrors THEN Min(params.stepIndex * 1000, 10000) ELSE 0)

DelayOf(hasErrors, hasToolCalls, priority, stepIndex) ==
  [hasErrors |-> hasErrors, hasToolCalls |-> hasToolCalls, priority |-> priority,
   stepIndex |-> stepIndex]

\* C19: calculateDelay is base(priority) + 1000 with tool calls +
\* min(stepIndex * 1000, 10000) with errors, base being 200, 1000, 5000 for
\* high, normal, low; the six worked examples come out as 200, 1000, 5000,
\* 2000, 4000 and 11000, and no delay exceeds 16000.
C19_DelayPolicy ==
  responses.handler = "calculateDelay" =>
    LET params == responses.detail
        delay == responses.code
    IN /\ delay = PolicyDelay(params)
       /\ delay <= 16000
       /\ params = DelayOf(FALSE, FALSE, "high", params.stepIndex) => delay = 200
       /\ params = DelayOf(FALSE, FALSE, "normal", params.stepIndex) => delay = 1000
       /\ params = DelayOf(FALSE, FALSE, "low", params.stepIndex) => delay = 5000
       /\ params = DelayOf(FALSE, TRUE, "normal", params.stepIndex) => delay = 2000
       /\ params = DelayOf(TRUE, FALSE, "normal", 3) => delay = 4000
       /\ params = DelayOf(TRUE, FALSE, "normal", 20) => delay = 11000

C19_Witness ==
  /\ responses.handler = "calculateDelay"
  /\ responses.detail = DelayOf(TRUE, FALSE, "normal", 20)
  /\ responses.code = 11000

\* ---------------------------------------------------------------- C20
\* C20: a subscriber connecting with lastEventId f, with or without the
\* history, receives the connected frame first and then the events after f
\* once each, in id order, without gap or duplicate: its frames are always
\* connected followed by f+1, f+2, ...
C20_SubscriberInOrderOnce ==
  \A p \in ProcIds :
    procs[p].kind = "sse" =>
      LET frames == Val(procs[p].res).frames
          f == Val(procs[p].req).lastEventId
      IN /\ frames[1] = Frame("connected", f)
         /\ \A k \in 2..Len(frames) :
              /\ frames[k].id = f + k - 1
              /\ frames[k].type = stream[f + k - 1].type

\* ---------------------------------------------------------------- C21
\* C21: the history replay keeps exactly the events whose timestamp is
\* strictly greater than lastEventId, and all of them when lastEventId is
\* "0", whatever the number of digits of the two values.
C21_HistoryKeepsNewer ==
  responses.handler = "historyTest" =>
    LET test == responses.detail
    IN test.kept <=> (test.lastEventId = 0 \/ test.timestamp > test.lastEventId)

\* ---------------------------------------------------------------- C22
\* The state st has reached its cost limit under the policy stop.
CostStopped(st) ==
  /\ IsSet(st.costLimit)
  /\ Val(st.costLimit).onExceeded = "stop"
  /\ st.cost >= Val(st.costLimit).maxTotalCost
  /\ st.status \notin {"done", "error", "interrupted", "waiting_for_human_input"}
  /\ st.stepCount < st.maxSteps

\* C22: a step that stops on the cost limit with onExceeded = stop enqueues
\* nothing and leaves the status as the executor set it, and GET /session
\* on the session so stopped reports isActive = false.
C22_CostStopNotActive ==
  [][/\ \A p \in ProcIds :
          (/\ procs[p].kind = "step" /\ procs[p].pc = "schedule"
           /\ procs'[p].kind = "idle"
           /\ CostStopped(Val(procs[p].res).newState))
            => queue' = queue /\ store' = store
     /\ (/\ responses'.handler = "session-status" /\ responses'.code = 200
         /\ UNCHANGED store
         /\ responses.handler = "execute-step" /\ responses.detail = "not scheduled"
         /\ StepsInFlight = {} /\ queue = {}
         /\ CostStopped(Val(store)))
          => /\ Val(store).status = "running"
             /\ responses'.detail \notin {"isActive ", "isActive needsHumanInput "}]_vars

\* ---------------------------------------------------------------- C23
\* The instruction types the default mapping allows for a context.
DefaultMapping(context) ==
  CASE context.phase = "user_input" -> {"call_llm"}
    [] context.phase = "llm_result" /\ context.toolCalls # {} ->
         {"request_human_approve", "call_tool"}
    [] context.phase = "tool_result" -> {"call_llm"}
    [] OTHER -> {"finish"}

\* C23: the runner answers user_input with call_llm, llm_result carrying
\* tool calls with request_human_approve or call_tool, tool_result with
\* call_llm and every other case with finish, and the same context always
\* gets the same instruction.
C23_RunnerDefaultMapping ==
  \A p \in ProcIds :
    procs[p].kind = "runner" =>
      /\ Val(procs[p].res).type \in DefaultMapping(Val(procs[p].ctx))
      /\ \A q \in ProcIds :
           (procs[q].kind = "runner" /\ procs[q].ctx = procs[p].ctx)
             => procs[q].res = procs[p].res

\* ---------------------------------------------------------------- C24
\* The types of the events of the log, the stream_chunk events left out (the
\* number of chunks is the model adapter's).
TypesButChunks ==
  LET notChunk(e) == e.type # "stream_chunk"
      kept == SelectSeq(stream, notChunk)
  IN [i \in 1..Len(kept) |-> kept[i].type]

\* The run of one user message with auto start, a model answer without tool
\* call and no fault, redelivery or intervention has ended.
HappyPathEnded ==
  /\ IsSet(store)
  /\ Val(store).status = "done"
  /\ Val(store).stepCount = 2
  /\ faults = 0 /\ redeliveries = 0 /\ interventions = 0
  /\ \A p \in ProcIds : procs[p].kind = "idle"
  /\ responses.handler = "execute-step"

\* C24: in the happy path the event stream is step_start, stream_start, the
\* stream_chunk events, stream_end, step_complete, step_start, step_complete,
\* done, and the run ends with status done, step count 2, the assistant
\* message stored and no task enqueued.
C24_HappyPathEvents ==
  HappyPathEnded =>
    /\ TypesButChunks = <<"step_start", "stream_start", "stream_end", "step_complete",
                          "step_start", "step_complete", "done">>
    /\ Val(store).messages = <<"user", "assistant">>
    /\ queue = {}

\* ---------------------------------------------------------------- C25
\* saveStepResult has been called: a record was pushed on the step history.
StepSaved == history' # history /\ IsSet(store) /\ IsSet(store')

NoDuplicateIndex(hist) ==
  \A i, j \in DOMAIN hist : i # j => hist[i].stepIndex # hist[j].stepIndex

NewestFirst(hist) ==
  \A i \in 1..(Len(hist) - 1) : hist[i].stepIndex >= hist[i + 1].stepIndex

\* C27: saving the same {stepIndex, newState} twice leaves the persisted
\* state as one save leaves it, the step history holds at most one entry per
\* stepIndex, is kept newest first and never holds more than 200 entries.
C27_SaveIdempotent ==
  /\ NoDuplicateIndex(history)
  /\ NewestFirst(history)
  /\ Len(history) <= HistoryCap
  /\ (responses.handler = "saveStepResult" /\ IsSet(store))
       => Val(store) = SavedState(responses.code)

\* ---------------------------------------------------------------- C28
\* The step of the human-intervention handler in which scheduling fails.
ScheduleFails(p) ==
  /\ procs[p].kind = "hi"
  /\ procs[p].pc = "schedule"
  /\ faults' = faults + 1
  /\ procs'[p] = IdleProc

Persisted(n) == \E i \in DOMAIN history : history[i].stepIndex = n

\* Events the executors publish while an instruction runs.
ExecutorEvent(e) ==
  \/ e.type \in {"stream_start", "stream_chunk", "stream_end"}
  \/ e.phase \in {"tool_execution", "human_approval", "execution_complete",
                  "llm_execution"}

\* The step_complete events the step handler itself closes a step with.
StepLevelComplete(e) ==
  e.type = "step_complete" /\ e.phase \in {"", "human_intervention_rejected"}

InterventionEvent(e) ==
  /\ e.detail \in {"approve", "reject", "input", "select"}
  /\ e.phase \in {"human_intervention", "human_intervention_processed",
                  "human_intervention_scheduling"}

\* The step_start the execute-step handler publishes for step n.
FollowUpStart(e, n) == e.type = "step_start" /\ e.phase = "" /\ e.stepIndex = n

RECURSIVE TextOf(_)
TextOf(chunks) ==
  IF chunks = <<>> THEN ""
  ELSE (IF Head(chunks).type = "text" THEN Head(chunks).text ELSE "") \o TextOf(Tail(chunks))

\* The k-th published text chunk answers the text chunks up to the k-th
\* non-empty one: its fullContent is the join of the first k non-empty texts.
RECURSIVE NonEmptyTexts(_)
NonEmptyTexts(chunks) ==
  IF chunks = <<>> THEN <<>>
  ELSE (IF Head(chunks).type = "text" /\ Head(chunks).text # ""
          THEN <<Head(chunks).text>> ELSE <<>>) \o NonEmptyTexts(Tail(chunks))

RECURSIVE Join(_, _)
Join(texts, k) == IF k = 0 THEN "" ELSE Join(texts, k - 1) \o texts[k]

\* C31: for every chunk sequence the LLM executor appends exactly one
\* assistant message whose content is the in-order join of all text chunks,
\* every published text chunk carries as fullContent the join up to and
\* including that chunk, and the next context has phase llm_result with
\* hasToolCalls true exactly when its tool-call list is non-empty.
C31_LLMExecutorContent ==
  \A p \in ProcIds :
    (procs[p].kind = "llm" /\ procs[p].pc = "done") =>
      LET chunks == Val(procs[p].req)
          before == Val(procs[p].st)
          r == Val(procs[p].res)
          isText(c) == c.chunkType = "text"
          texts == SelectSeq(r.published, isText)
          given == NonEmptyTexts(chunks)
      IN /\ Len(r.messages) = Len(before) + 1
         /\ SubSeq(r.messages, 1, Len(before)) = before
         /\ r.messages[Len(r.messages)].role = "assistant"
         /\ r.messages[Len(r.messages)].content = TextOf(chunks)
         /\ r.finalContent = TextOf(chunks)
         /\ Len(texts) = Len(given)
         /\ \A k \in DOMAIN texts :
              /\ texts[k].content = given[k]
              /\ texts[k].fullContent = Join(given, k)
         /\ r.nextContext.phase = "llm_result"
         /\ r.nextContext.hasToolCalls <=> (r.nextContext.toolCalls # <<>>)
         /\ r.nextContext.toolCalls = r.messages[Len(r.messages)].tool_calls

C31_Witness ==
  \E p \in ProcIds :
    /\ procs[p].kind = "llm"
    /\ procs[p].pc = "done"
    /\ Val(procs[p].req) = <<Chunk("text", "a", <<>>), Chunk("tool_calls", "", <<"t1">>),
                             Chunk("text", "b", <<>>)>>
    /\ Val(procs[p].res).finalContent = "ab"
    /\ Val(procs[p].res).nextContext.hasToolCalls
    /\ Len(Val(procs[p].res).published) = 3
    /\ Val(procs[p].res).published[3].fullContent = "ab"

\* ---------------------------------------------------------------- C32
\* C32: a failing tool executor publishes an error event and returns the
\* state it was handed, with an error event in its result and no tool
\* message; a succeeding one appends exactly one tool message carrying the id
\* of the tool call and returns a next context of phase tool_result.
C32_ToolExecutorOutcome ==
  \A p \in ProcIds :
    (procs[p].kind = "tool" /\ procs[p].pc = "done") =>
      LET toolCall == Val(procs[p].req)
          state == Val(procs[p].st)
          r == Val(procs[p].res)
      IN IF toolCall.argsOk
           THEN /\ r.newState.messages = Append(state.messages, "tool:" \o toolCall.id)
                /\ r.newState = [state EXCEPT !.messages = r.newState.messages]
                /\ IsSet(r.nextContext)
                /\ Val(r.nextContext).phase = "tool_result"
                /\ \A i \in DOMAIN r.events : r.events[i] # "error"
                /\ \A i \in DOMAIN r.published : r.published[i].type # "error"
           ELSE /\ r.newState = state
                /\ \E i \in DOMAIN r.events : r.events[i] = "error"
                /\ \E i \in DOMAIN r.published :
                     /\ r.published[i].type = "error"
                     /\ r.published[i].stepIndex = Val(procs[p].task)
                /\ ~r.fault

C32_Witness ==
  \E p \in ProcIds :
    /\ procs[p].kind = "tool"
    /\ procs[p].pc = "done"
    /\ ~Val(procs[p].req).argsOk
    /\ Len(Val(procs[p].st).messages) = 2
    /\ Val(procs[p].res).newState = Val(procs[p].st)
    /\ Val(procs[p].res).events = <<"error">>

\* ---------------------------------------------------------------- C33
\* The client of a connection has gone away, by either way.
Disconnected(c) == c.requestAborted \/ c.cancelled

\* C33: once the client of a connection has gone away, through the abort
\* signal of the request or through cancellation of the response stream, the
\* subscription's signal is aborted (the event-store read is released), the
\* heartbeat timer is stopped, and no frame was enqueued after it went away.
C33_DisconnectReleases ==
  \A p \in ProcIds :
    (procs[p].kind = "conn" /\ Disconnected(Val(procs[p].res))) =>
      /\ Val(procs[p].res).signal
      /\ ~Val(procs[p].res).heartbeat
      /\ Val(procs[p].res).late = 0

\* ---------------------------------------------------------------- C34
\* The execute-step route takes task t off the queue and finds no state.
MissingStateDelivery(t) ==
  /\ t \in queue
  /\ t \notin queue'
  /\ ~IsSet(store)
  /\ procs' = procs
  /\ responses'.handler = "execute-step"
  /\ responses'.code = 404

\* C34: a step task delivered for a session without state is answered with
\* 404, publishes nothing, creates no state, enqueues nothing, and is not put
\* back on the queue for another delivery.
C34_MissingStateIsTerminal ==
  [][\A t \in queue : MissingStateDelivery(t) =>
       /\ stream' = stream
       /\ store' = store
       /\ history' = history
       /\ queue' = queue \ {t}]_vars

\* ---------------------------------------------------------------- C35
\* Neither the step limit nor a stopping cost limit has been reached.
NoLimitReached(st) ==
  /\ st.stepCount < st.maxSteps
  /\ ~(/\ IsSet(st.costLimit)
       /\ Val(st.costLimit).onExceeded = "stop"
       /\ st.cost >= Val(st.costLimit).maxTotalCost)

\* C35: a session never stalls in running: when the execute-step handler
\* answers a step with 200 and the persisted status is running with no limit
\* reached, a task for the next step is on the queue, also when scheduling
\* failed and when the tool executor returned after a fault.
C35_RunningHasNextStep ==
  [][\A p \in ProcIds :
       (/\ procs[p].kind = "step"
        /\ procs[p].pc = "schedule"
        /\ procs'[p] = IdleProc
        /\ responses'.code = 200
        /\ IsSet(store')
        /\ Val(store').status = "running"
        /\ NoLimitReached(Val(store')))
         => \E t \in queue' : t.stepIndex = Val(procs[p].task).stepIndex + 1]_vars

\* ---------------------------------------------------------------- C36
\* A deletion has returned: state, step history and event log are absent and
\* no deletion handler is at work.
SessionAbsent ==
  /\ ~IsSet(store)
  /\ history = <<>>
  /\ stream = <<>>
  /\ \A p \in ProcIds : procs[p].kind # "delete"

\* A step handler, in flight or just dispatched, takes a step.
StepHandlerActs ==
  \E p \in ProcIds :
    /\ procs'[p] # procs[p]
    /\ "step" \in {procs[p].kind, procs'[p].kind}

\* C36: once delete_session has returned, state, step history and event log
\* stay absent: a step that was in flight or dispatched when the deletion ran
\* writes neither the state nor events back.
C36_DeletedStaysAbsent ==
  [][(SessionAbsent /\ StepHandlerActs) =>
       /\ ~IsSet(store')
       /\ history' = <<>>
       /\ stream' = <<>>]_vars

\* ---------------------------------------------------------------- C37
\* C37: a configuration update that interleaves with a step loses no update:
\* the stored step count and messages never go back to an older value, and
\* the stored limits change only when a configuration update saves them.
C37_NoLostUpdate ==
  [][(IsSet(store) /\ IsSet(store')) =>
       /\ Val(store').stepCount >= Val(store).stepCount
       /\ Len(Val(store').messages) >= Len(Val(store).messages)
       /\ (\/ Val(store').maxSteps # Val(store).maxSteps
           \/ Val(store').costLimit # Val(store).costLimit)
            => \E p \in ProcIds : procs[p].kind = "patch" /\ procs'[p] = IdleProc]_vars

\* ---------------------------------------------------------------- C38
\* C38: a session created with maxSteps M and receiving finitely many
\* interventions comes to rest with at most M + (intervention steps) step
\* results committed; stated as the bound every reachable state keeps: the
\* step history never holds more than M + (intervention requests) results.
C38_StepsBoundedByMaxSteps ==
  IsSet(store) => Len(history) <= Val(store).maxSteps + interventions

\* ---------------------------------------------------------------- C39
\* C39: internal_cleanupAgentSession terminates: closing the EventSource,
\* whose close calls onDisconnect and through it the cleanup again, does not
\* recurse without end; after the call the entry is gone from agentSessions
\* and the EventSource was closed once.
C39_CleanupTerminates ==
  \A p \in ProcIds :
    procs[p].kind = "cleanup" =>
      LET c == Val(procs[p].res)
      IN /\ procs[p].pc # "thrown"
         /\ c.closes <= 1
         /\ procs[p].pc = "returned" =>
              /\ ~IsSet(c.session)
              /\ (IsSet(procs[p].st) /\ Val(procs[p].st).eventSource) => c.closes = 1

\* ---------------------------------------------------------------- C40
\* C40: in the timer queue the tracked timers are the tasks scheduled and
\* neither fired nor cancelled: tasks alive together have distinct ids,
\* pendingCount is the number of such tasks, and a task cancelled by its id
\* before it fires never calls the step endpoint.
C40_TimersTracked ==
  \A p \in ProcIds :
    procs[p].kind = "timers" =>
      LET q == Val(procs[p].res)
          waiting == {t \in q.timers : ~t.fired}
      IN /\ \A t1, t2 \in q.timers : t1.taskId = t2.taskId => t1 = t2
         /\ {e.uid : e \in q.timeouts} = {t.uid : t \in waiting}
         /\ pendingCount(q) = Cardinality(waiting)
         /\ \A t \in q.timers : t.cancelRequested => t.uid \notin q.called
====
